---------------------------- MODULE Spec2Model ----------------------------
(***************************************************************************)
(* Model of the ArgoCD DORA metrics generator (enhanced variant,           *)
(* argocd_dora_metrics_enhanced_helm.py): the per-application history      *)
(* scan of process_single_app, the thread-pool dispatcher loop of          *)
(* generate_dora_report, the metric folds and the insight analyzers.       *)
(*                                                                         *)
(* A timestamp string of the payload is its second on an integer time      *)
(* axis, or one of the two markers Missing (the key is absent or the       *)
(* string is empty) and Unparseable (strptime raises ValueError).          *)
(***************************************************************************)
EXTENDS Integers, Sequences, FiniteSets, TLC

(***************************************************************************)
(* Bounds of the model.                                                    *)
(***************************************************************************)
\* number of distinct instants inside the analysis window a scanned history uses
MaxTime == 3
\* longest deployment history handed to one history scan
MaxHist == 3
\* number of applications get_applications returns
NumApps == 3
\* largest deployment total and longest window (days) of the frequency level
MaxTotal == 35
MaxDays == 31
\* the day of datetime.now() on the day axis of the staleness analysis
MaxStaleDays == 200
\* half minutes between the earliest start of a current operation and now
MaxStuckTicks == 92
\* worker threads of the pool that run detail calls, and calls each one makes
NumThreads == 2
MaxCalls == 2

(***************************************************************************)
(* Python floats.  A float of the program is an IEEE-754 double; the folds *)
(* of calculate_mttr and analyze_by_namespace add the recovery intervals   *)
(* one after the other, so each sum is rounded to 53 significant bits      *)
(* (round to nearest, ties to even) after every addition, as the float     *)
(* loop of the built-in sum does.  A magnitude is a natural number of      *)
(* units 2^-75, written in limbs of 15 bits, least significant limb first, *)
(* without leading zero limbs; a double is a sign and a magnitude.         *)
(***************************************************************************)
LimbBits == 15
LimbBase == 32768
FractionLimbs == 5
SignificandBits == 53

Zeros(n) == [i \in 1..n |-> 0]

RECURSIVE Norm(_)
Norm(a) == IF a = <<>> THEN <<>>
           ELSE IF a[Len(a)] = 0 THEN Norm(SubSeq(a, 1, Len(a) - 1))
           ELSE a

RECURSIVE IntToBig(_)
IntToBig(n) == IF n = 0 THEN <<>> ELSE <<n % LimbBase>> \o IntToBig(n \div LimbBase)

RECURSIVE BigToInt(_)
BigToInt(a) == IF a = <<>> THEN 0 ELSE Head(a) + LimbBase * BigToInt(Tail(a))

RECURSIVE BAddCarry(_, _, _)
BAddCarry(a, b, c) ==
    IF a = <<>> /\ b = <<>> THEN (IF c = 0 THEN <<>> ELSE <<c>>)
    ELSE LET x == (IF a = <<>> THEN 0 ELSE Head(a)) + (IF b = <<>> THEN 0 ELSE Head(b)) + c
         IN  <<x % LimbBase>> \o
             BAddCarry(IF a = <<>> THEN <<>> ELSE Tail(a),
                       IF b = <<>> THEN <<>> ELSE Tail(b), x \div LimbBase)

BAdd(a, b) == BAddCarry(a, b, 0)

\* a - b for a >= b
RECURSIVE BSubBorrow(_, _, _)
BSubBorrow(a, b, c) ==
    IF a = <<>> THEN <<>>
    ELSE LET x == Head(a) - (IF b = <<>> THEN 0 ELSE Head(b)) - c
         IN  <<IF x < 0 THEN x + LimbBase ELSE x>> \o
             BSubBorrow(Tail(a), IF b = <<>> THEN <<>> ELSE Tail(b),
                        IF x < 0 THEN 1 ELSE 0)

BSub(a, b) == Norm(BSubBorrow(a, b, 0))

\* a * k for 0 <= k <= LimbBase
RECURSIVE BMulCarry(_, _, _)
BMulCarry(a, k, c) ==
    IF a = <<>> THEN (IF c = 0 THEN <<>> ELSE <<c>>)
    ELSE LET x == Head(a) * k + c
         IN  <<x % LimbBase>> \o BMulCarry(Tail(a), k, x \div LimbBase)

BMulSmall(a, k) == Norm(BMulCarry(a, k, 0))

\* quotient and remainder of a by d, 0 < d <= LimbBase, without normalising q
RECURSIVE BDivLimbs(_, _)
BDivLimbs(a, d) ==
    IF a = <<>> THEN [q |-> <<>>, r |-> 0]
    ELSE LET hi == BDivLimbs(Tail(a), d)
             cur == hi.r * LimbBase + Head(a)
         IN  [q |-> <<cur \div d>> \o hi.q, r |-> cur % d]

BDivMod(a, d) == LET dm == BDivLimbs(a, d) IN [q |-> Norm(dm.q), r |-> dm.r]

RECURSIVE BitLenLimb(_)
BitLenLimb(x) == IF x = 0 THEN 0 ELSE 1 + BitLenLimb(x \div 2)

BBitLen(a) == IF a = <<>> THEN 0 ELSE LimbBits * (Len(a) - 1) + BitLenLimb(a[Len(a)])

\* -1, 0 or 1 as a < b, a = b or a > b
RECURSIVE BCmpFrom(_, _, _)
BCmpFrom(a, b, i) ==
    IF i = 0 THEN 0
    ELSE IF a[i] < b[i] THEN -1
    ELSE IF a[i] > b[i] THEN 1
    ELSE BCmpFrom(a, b, i - 1)

BCmp(a, b) ==
    IF Len(a) < Len(b) THEN -1
    ELSE IF Len(a) > Len(b) THEN 1
    ELSE BCmpFrom(a, b, Len(a))

BShl(a, s) ==
    IF a = <<>> THEN <<>>
    ELSE Zeros(s \div LimbBits) \o BMulSmall(a, 2 ^ (s % LimbBits))

\* the integer nearest to a / 2^s, ties to even; sticky says that the exact
\* value lies strictly above a / 2^s (by less than one unit of a)
RoundShift(a, s, sticky) ==
    IF s = 0 THEN a
    ELSE LET q == s \div LimbBits
             kept == IF q >= Len(a) THEN <<>> ELSE SubSeq(a, q + 1, Len(a))
             low == IF q >= Len(a) THEN a \o Zeros(q - Len(a)) ELSE SubSeq(a, 1, q)
             dm == BDivMod(kept, 2 ^ (s % LimbBits))
             rest == Norm(low \o <<dm.r>>)
             half == BShl(<<1>>, s - 1)
             c == BCmp(rest, half)
             odd == dm.q # <<>> /\ dm.q[1] % 2 = 1
         IN  IF c > 0 \/ (c = 0 /\ (sticky \/ odd)) THEN BAdd(dm.q, <<1>>) ELSE dm.q

\* the magnitude with 53 significant bits nearest to a
Fl(a, sticky) ==
    IF BBitLen(a) <= SignificandBits THEN a
    ELSE BShl(RoundShift(a, BBitLen(a) - SignificandBits, sticky),
              BBitLen(a) - SignificandBits)

Double(neg, mag) == [neg |-> neg /\ mag # <<>>, mag |-> mag]

\* float(n) of an integer n
DFromInt(n) ==
    IF n >= 0 THEN Double(FALSE, IF n = 0 THEN <<>> ELSE Zeros(FractionLimbs) \o IntToBig(n))
    ELSE Double(TRUE, Zeros(FractionLimbs) \o IntToBig(-n))

\* x / d for an integer d > 0: the quotient is taken with one more limb
DDivInt(x, d) ==
    LET dm == BDivMod(<<0>> \o x.mag, d)
        rounded == Fl(dm.q, dm.r # 0)
    IN  Double(x.neg, IF rounded = <<>> THEN <<>> ELSE Norm(Tail(rounded)))

\* x * k for an integer k >= 0
DMulInt(x, k) == Double(x.neg, Fl(BMulSmall(x.mag, k), FALSE))

\* x + y
DAdd(x, y) ==
    IF x.neg = y.neg THEN Double(x.neg, Fl(BAdd(x.mag, y.mag), FALSE))
    ELSE IF BCmp(x.mag, y.mag) >= 0
    THEN Double(x.neg, Fl(BSub(x.mag, y.mag), FALSE))
    ELSE Double(y.neg, Fl(BSub(y.mag, x.mag), FALSE))

\* x < y
DLess(x, y) ==
    IF x.neg /\ ~y.neg THEN TRUE
    ELSE IF ~x.neg /\ y.neg THEN FALSE
    ELSE IF x.neg THEN BCmp(x.mag, y.mag) > 0
    ELSE BCmp(x.mag, y.mag) < 0

\* round(x, 2) and round(x, 1), as the integer number of hundredths or tenths
DRound(x, scale) ==
    LET n == BigToInt(RoundShift(BMulSmall(x.mag, scale), FractionLimbs * LimbBits, FALSE))
    IN  IF x.neg THEN -n ELSE n

\* int(x) of a float: the fraction is dropped, towards zero
DTrunc(x) ==
    LET n == IF Len(x.mag) <= FractionLimbs THEN 0
             ELSE BigToInt(SubSeq(x.mag, FractionLimbs + 1, Len(x.mag)))
    IN  IF x.neg THEN -n ELSE n

\* sum(list): the additions are made from left to right, starting from 0
RECURSIVE DSumFrom(_, _)
DSumFrom(acc, s) == IF s = <<>> THEN acc ELSE DSumFrom(DAdd(acc, Head(s)), Tail(s))

DSum(s) == DSumFrom(DFromInt(0), s)

\* sorted(list) of floats, ascending
RECURSIVE DInsert(_, _)
DInsert(x, s) ==
    IF s = <<>> THEN <<x>>
    ELSE IF DLess(x, Head(s)) THEN <<x>> \o s
    ELSE <<Head(s)>> \o DInsert(x, Tail(s))

RECURSIVE DSorted(_)
DSorted(s) == IF s = <<>> THEN <<>> ELSE DInsert(s[Len(s)], DSorted(SubSeq(s, 1, Len(s) - 1)))

\* (later - earlier).total_seconds() / 3600
SecondsPerHour == 3600
RecoveryHours(seconds) == DDivInt(DFromInt(seconds), SecondsPerHour)

(***************************************************************************)
(* Timestamps and history entries.                                         *)
(***************************************************************************)
Missing == -1
Unparseable == -2

DAYS_TO_ANALYZE == 7
SecondsPerDay == 86400

\* generate_dora_report: end_date = datetime.now(),
\* start_date = end_date - timedelta(days=DAYS_TO_ANALYZE)
end_date == 2 * DAYS_TO_ANALYZE * SecondsPerDay
start_date == end_date - DAYS_TO_ANALYZE * SecondsPerDay

Phases == {"Succeeded", "Failed", "Error"}

\* One entry of status.history as process_single_app reads it:
\*   deployedAt, operationState.{phase, startedAt, finishedAt} and whether
\*   any resource of syncResult.resources has status Failed or Error.
Entry(at, ph, res, st, fin) ==
    [deployedAt |-> at, phase |-> ph, resFailed |-> res, startedAt |-> st, finishedAt |-> fin]

(***************************************************************************)
(* process_single_app: the history scan.                                   *)
(***************************************************************************)
\* the collections of the result dict before the loop
EmptyResult ==
    [deployments |-> <<>>, failures |-> <<>>,
     recovery_times |-> <<>>, sync_durations |-> <<>>]

\* the local state of the loop: result, previous_failed, failure_time
ScanInit == [result |-> EmptyResult, previous_failed |-> FALSE, failure_time |-> Missing]

\* IsFailed with the phase test negated
IsFailedNegated(e) == e.phase \notin {"Failed", "Error"} \/ e.resFailed

\* IsFailed without the test of the sync result's resources
IsFailedPhaseOnly(e) == e.phase \in {"Failed", "Error"}

\* phase in ['Failed', 'Error'], or any resource of the sync result failed
IsFailed(e) == e.phase \in {"Failed", "Error"} \/ e.resFailed

\* finishedAt defaults to the deployedAt string
FinishedAtStr(e) == IF e.finishedAt = Missing THEN e.deployedAt ELSE e.finishedAt

\* SyncDurationsAfter recording a duration of zero seconds as well
SyncDurationsAfterZeroKept(durs, e) ==
    IF /\ e.startedAt # Missing
       /\ FinishedAtStr(e) # Missing
       /\ e.startedAt # Unparseable
       /\ FinishedAtStr(e) # Unparseable
       /\ FinishedAtStr(e) - e.startedAt >= 0
    THEN Append(durs, FinishedAtStr(e) - e.startedAt)
    ELSE durs

\* the sync durations (seconds) after one in-window entry
SyncDurationsAfter(durs, e) ==
    IF /\ e.startedAt # Missing
       /\ FinishedAtStr(e) # Missing
       /\ e.startedAt # Unparseable
       /\ FinishedAtStr(e) # Unparseable
       /\ FinishedAtStr(e) - e.startedAt > 0
    THEN Append(durs, FinishedAtStr(e) - e.startedAt)
    ELSE durs

DeploymentInfo(e) == [time |-> e.deployedAt, phase |-> e.phase, is_failed |-> IsFailed(e)]

\* OpenFailureTime with the marker opened only when no failure is open
OpenFailureTimeKeepFirst(s, e) ==
    IF s.previous_failed THEN s.failure_time ELSE e.deployedAt

\* failure_time after a failure event: failure_time = deployed_at
OpenFailureTime(s, e) == e.deployedAt

\* RecoveryInterval measured from the first failure recorded
RecoveryIntervalFromFirstFailure(s, e) ==
    RecoveryHours(e.deployedAt - s.result.failures[1].time)

\* recovery_hours = (deployed_at - failure_time).total_seconds() / 3600
RecoveryInterval(s, e) == RecoveryHours(e.deployedAt - s.failure_time)

\* ScanStep in which the sync duration is taken before deployedAt is examined
ScanStepTimingSkipped(s, e) ==
    IF e.deployedAt = Missing \/ e.deployedAt = Unparseable
    THEN [s EXCEPT !.result.sync_durations = SyncDurationsAfter(@, e)]
    ELSE IF ~(start_date <= e.deployedAt /\ e.deployedAt <= end_date)
    THEN s
    ELSE LET r1 == [s.result EXCEPT
                      !.sync_durations = SyncDurationsAfter(@, e),
                      !.deployments = Append(@, DeploymentInfo(e))]
         IN  IF IsFailed(e)
             THEN [result |-> [r1 EXCEPT !.failures = Append(@, DeploymentInfo(e))],
                   previous_failed |-> TRUE,
                   failure_time |-> OpenFailureTime(s, e)]
             ELSE IF s.previous_failed /\ s.failure_time # Missing
             THEN [result |-> [r1 EXCEPT !.recovery_times =
                                            Append(@, RecoveryInterval(s, e))],
                   previous_failed |-> FALSE,
                   failure_time |-> Missing]
             ELSE [s EXCEPT !.result = r1]

\* ScanStep in which a failure met while a failure is open closes the open one
\* with an interval up to the new failure
ScanStepClosingAtFailure(s, e) ==
    IF e.deployedAt = Missing \/ e.deployedAt = Unparseable
    THEN s
    ELSE IF ~(start_date <= e.deployedAt /\ e.deployedAt <= end_date)
    THEN s
    ELSE LET r1 == [s.result EXCEPT
                      !.sync_durations = SyncDurationsAfter(@, e),
                      !.deployments = Append(@, DeploymentInfo(e))]
         IN  IF IsFailed(e)
             THEN [result |-> [r1 EXCEPT
                                 !.failures = Append(@, DeploymentInfo(e)),
                                 !.recovery_times =
                                     IF s.previous_failed
                                     THEN Append(@, RecoveryInterval(s, e)) ELSE @],
                   previous_failed |-> TRUE,
                   failure_time |-> OpenFailureTime(s, e)]
             ELSE IF s.previous_failed /\ s.failure_time # Missing
             THEN [result |-> [r1 EXCEPT !.recovery_times =
                                            Append(@, RecoveryInterval(s, e))],
                   previous_failed |-> FALSE,
                   failure_time |-> Missing]
             ELSE [s EXCEPT !.result = r1]

\* one iteration of `for i, deployment in enumerate(history)`
ScanStep(s, e) ==
    IF e.deployedAt = Missing \/ e.deployedAt = Unparseable
    THEN s
    ELSE IF ~(start_date <= e.deployedAt /\ e.deployedAt <= end_date)
    THEN s
    ELSE LET r1 == [s.result EXCEPT
                      !.sync_durations = SyncDurationsAfter(@, e),
                      !.deployments = Append(@, DeploymentInfo(e))]
         IN  IF IsFailed(e)
             THEN [result |-> [r1 EXCEPT !.failures = Append(@, DeploymentInfo(e))],
                   previous_failed |-> TRUE,
                   failure_time |-> OpenFailureTime(s, e)]
             ELSE IF s.previous_failed /\ s.failure_time # Missing
             THEN [result |-> [r1 EXCEPT !.recovery_times =
                                            Append(@, RecoveryInterval(s, e))],
                   previous_failed |-> FALSE,
                   failure_time |-> Missing]
             ELSE [s EXCEPT !.result = r1]

\* the whole loop over a history
RECURSIVE ScanAll(_, _)
ScanAll(s, h) == IF h = <<>> THEN s ELSE ScanAll(ScanStep(s, Head(h)), Tail(h))

(***************************************************************************)
(* get_application_details and process_single_app on one application.      *)
(***************************************************************************)
\* the empty dict get_application_details returns on a timeout or an error
EmptyAppData == [empty |-> TRUE, status_ok |-> TRUE, history |-> <<>>]

\* a non-empty JSON body; status_ok is FALSE when "status" is not an object
\* (null, a string, a list), so that .get on it raises AttributeError
AppData(ok, h) == [empty |-> FALSE, status_ok |-> ok, history |-> h]

\* responses of GET /api/v1/applications/{name}
Timeout == [kind |-> "timeout", body |-> EmptyAppData]
HttpError == [kind |-> "error", body |-> EmptyAppData]
Ok(body) == [kind |-> "ok", body |-> body]

GetApplicationDetails(response) ==
    IF response.kind = "ok" THEN response.body ELSE EmptyAppData

AppNamespace(app) == IF app % 2 = 1 THEN "team-a" ELSE "team-b"

ErrorMarker(app) ==
    [app_name |-> app, namespace |-> AppNamespace(app), error |-> TRUE,
     deployments |-> <<>>, failures |-> <<>>,
     recovery_times |-> <<>>, sync_durations |-> <<>>]

\* the result dict of an application whose detail was fetched
AppResult(app, r) ==
    [app_name |-> app, namespace |-> AppNamespace(app), error |-> FALSE,
     deployments |-> r.deployments, failures |-> r.failures,
     recovery_times |-> r.recovery_times, sync_durations |-> r.sync_durations]

\* what the future of process_single_app holds: a result, or an exception
Returned(r) == [raised |-> FALSE, result |-> r]
Raised(app) == [raised |-> TRUE, result |-> <<>>]

\* variant in which a timed-out call is not caught in get_application_details
ProcessSingleAppTimeoutRaises(app, response) ==
    LET app_data == GetApplicationDetails(response)
    IN  IF response.kind = "timeout"
        THEN Raised(app)
        ELSE IF app_data.empty
        THEN Returned(ErrorMarker(app))
        ELSE IF ~app_data.status_ok
        THEN Raised(app)
        ELSE Returned(AppResult(app, ScanAll(ScanInit, app_data.history).result))

ProcessSingleApp(app, response) ==
    LET app_data == GetApplicationDetails(response)
    IN  IF app_data.empty
        THEN Returned(ErrorMarker(app))
        ELSE IF ~app_data.status_ok
        THEN Raised(app)
        ELSE Returned(AppResult(app, ScanAll(ScanInit, app_data.history).result))

(***************************************************************************)
(* Helpers of the metric folds.  round(x, 2) and round(x, 1) are kept as   *)
(* the integer number of hundredths and of tenths.                         *)
(***************************************************************************)
Hundredths == 100
Tenths == 10

RECURSIVE Insert(_, _)
Insert(x, s) ==
    IF s = <<>> THEN <<x>>
    ELSE IF x < Head(s) THEN <<x>> \o s
    ELSE <<Head(s)>> \o Insert(x, Tail(s))

\* sorted(list) of sync durations (whole seconds), ascending
RECURSIVE Sorted(_)
Sorted(s) == IF s = <<>> THEN <<>> ELSE Insert(s[Len(s)], Sorted(SubSeq(s, 1, Len(s) - 1)))

RECURSIVE SumSeq(_)
SumSeq(s) == IF s = <<>> THEN 0 ELSE Head(s) + SumSeq(Tail(s))

Min(a, b) == IF a <= b THEN a ELSE b

\* (failed / total * 100) if total > 0 else 0
FailureRate(failed, total) ==
    IF total > 0 THEN DMulInt(DDivInt(DFromInt(failed), total), 100) ELSE DFromInt(0)

\* the level thresholds shared by the fleet and the namespace failure rate
FailureRateLevel(failure_rate) ==
    IF DLess(failure_rate, DFromInt(15)) THEN "elite"
    ELSE IF DLess(failure_rate, DFromInt(30)) THEN "high"
    ELSE IF DLess(failure_rate, DFromInt(45)) THEN "medium"
    ELSE "low"

(***************************************************************************)
(* calculate_change_failure_rate                                           *)
(***************************************************************************)
\* CfrFold with the total counting only the deployments that did not fail
RECURSIVE CfrFoldSucceededOnly(_, _)
CfrFoldSucceededOnly(acc, prs) ==
    IF prs = <<>> THEN acc
    ELSE LET r == Head(prs)
             app_total == Len(r.deployments) - Len(r.failures)
             app_failed == Len(r.failures)
         IN  IF r.error THEN CfrFoldSucceededOnly(acc, Tail(prs))
             ELSE CfrFoldSucceededOnly(
                    [total_deployments |-> acc.total_deployments + app_total,
                     failed_deployments |-> acc.failed_deployments + app_failed,
                     app_breakdown |-> acc.app_breakdown],
                    Tail(prs))

\* the loop over processed_results: the two counters and app_failure_rates
RECURSIVE CfrFold(_, _)
CfrFold(acc, prs) ==
    IF prs = <<>> THEN acc
    ELSE LET r == Head(prs)
             app_total == Len(r.deployments)
             app_failed == Len(r.failures)
         IN  IF r.error THEN CfrFold(acc, Tail(prs))
             ELSE CfrFold(
                    [total_deployments |-> acc.total_deployments + app_total,
                     failed_deployments |-> acc.failed_deployments + app_failed,
                     app_breakdown |->
                        IF app_total > 0
                        THEN [a \in DOMAIN acc.app_breakdown \cup {r.app_name} |->
                                IF a = r.app_name
                                THEN DRound(FailureRate(app_failed, app_total), Hundredths)
                                ELSE acc.app_breakdown[a]]
                        ELSE acc.app_breakdown],
                    Tail(prs))

CalculateChangeFailureRate(processed) ==
    LET acc == CfrFold([total_deployments |-> 0, failed_deployments |-> 0,
                        app_breakdown |-> <<>>], processed)
        failure_rate == FailureRate(acc.failed_deployments, acc.total_deployments)
    IN  [total_deployments |-> acc.total_deployments,
         failed_deployments |-> acc.failed_deployments,
         change_failure_rate |-> DRound(failure_rate, Hundredths),
         dora_level |-> FailureRateLevel(failure_rate),
         app_breakdown |-> acc.app_breakdown]

(***************************************************************************)
(* calculate_mttr                                                          *)
(***************************************************************************)
\* recovery_times.extend(...) over the non-error results, in list order
RECURSIVE AllRecoveryTimes(_)
AllRecoveryTimes(prs) ==
    IF prs = <<>> THEN <<>>
    ELSE IF Head(prs).error THEN AllRecoveryTimes(Tail(prs))
    ELSE Head(prs).recovery_times \o AllRecoveryTimes(Tail(prs))

\* sum(times) / len(times)
Mean(times) == DDivInt(DSum(times), Len(times))

\* app_mttr: the mean of each application that has recovery times
RECURSIVE AppMttr(_)
AppMttr(prs) ==
    IF prs = <<>> THEN <<>>
    ELSE LET r == prs[Len(prs)]
             before == AppMttr(SubSeq(prs, 1, Len(prs) - 1))
         IN  IF r.error \/ r.recovery_times = <<>> THEN before
             ELSE [a \in DOMAIN before \cup {r.app_name} |->
                     IF a = r.app_name
                     THEN DRound(Mean(r.recovery_times), Hundredths)
                     ELSE before[a]]

\* MttrLevel with the threshold of a day taken for that of a week
MttrLevelDayAsWeek(avg_mttr_hours) ==
    IF DLess(avg_mttr_hours, DFromInt(1)) THEN "elite"
    ELSE IF DLess(avg_mttr_hours, DFromInt(168)) THEN "high"
    ELSE "low"

\* avg_mttr_hours compared with 1, 24 and 168
MttrLevel(avg_mttr_hours) ==
    IF DLess(avg_mttr_hours, DFromInt(1)) THEN "elite"
    ELSE IF DLess(avg_mttr_hours, DFromInt(24)) THEN "high"
    ELSE IF DLess(avg_mttr_hours, DFromInt(168)) THEN "medium"
    ELSE "low"

\* the result when no recovery interval was recorded
NoRecovery ==
    [avg_mttr_hours |-> 0, avg_mttr_minutes |-> 0, median_mttr_hours |-> 0,
     incidents_recovered |-> 0, dora_level |-> "unknown",
     note |-> "No recovery incidents detected in time period"]

CalculateMttr(processed) ==
    LET recovery_times == AllRecoveryTimes(processed)
        n == Len(recovery_times)
        avg_mttr_hours == Mean(recovery_times)
        avg_mttr_minutes == DMulInt(avg_mttr_hours, 60)
        median_mttr == DSorted(recovery_times)[(n \div 2) + 1]
    IN  IF n = 0
        THEN NoRecovery
        ELSE [avg_mttr_hours |-> DRound(avg_mttr_hours, Hundredths),
              avg_mttr_minutes |-> DRound(avg_mttr_minutes, Hundredths),
              median_mttr_hours |-> DRound(median_mttr, Hundredths),
              incidents_recovered |-> n,
              dora_level |-> MttrLevel(avg_mttr_hours),
              app_breakdown |-> AppMttr(processed),
              note |-> "Based on actual ArgoCD failure detection"]

(***************************************************************************)
(* analyze_sync_duration                                                   *)
(***************************************************************************)
RECURSIVE AllSyncDurations(_)
AllSyncDurations(prs) ==
    IF prs = <<>> THEN <<>>
    ELSE IF Head(prs).error THEN AllSyncDurations(Tail(prs))
    ELSE Head(prs).sync_durations \o AllSyncDurations(Tail(prs))

\* round(sum(durations) / len(durations), 1); a sum of whole seconds is exact
AvgSeconds(durations) ==
    DRound(DDivInt(DFromInt(SumSeq(durations)), Len(durations)), Tenths)

\* app_sync_durations.items(), in insertion order
RECURSIVE AppSyncDurations(_)
AppSyncDurations(prs) ==
    IF prs = <<>> THEN <<>>
    ELSE LET r == Head(prs)
             d == r.sync_durations
             sd == Sorted(d)
         IN  IF r.error \/ d = <<>> THEN AppSyncDurations(Tail(prs))
             ELSE <<[app_name |-> r.app_name,
                     avg_seconds |-> AvgSeconds(d),
                     max_seconds |-> sd[Len(sd)] * Tenths,
                     sync_count |-> Len(d)]>> \o AppSyncDurations(Tail(prs))

\* sorted(items, key=avg_seconds, reverse=True): stable, ties keep their order
RECURSIVE InsertByAvgDesc(_, _)
InsertByAvgDesc(x, s) ==
    IF s = <<>> THEN <<x>>
    ELSE IF x.avg_seconds > Head(s).avg_seconds THEN <<x>> \o s
    ELSE <<Head(s)>> \o InsertByAvgDesc(x, Tail(s))

RECURSIVE SortByAvgDesc(_)
SortByAvgDesc(s) ==
    IF s = <<>> THEN <<>>
    ELSE InsertByAvgDesc(s[Len(s)], SortByAvgDesc(SubSeq(s, 1, Len(s) - 1)))

SlowestKept == 10

\* the float literal 0.95 or 0.99
Fraction(pct) == DDivInt(DFromInt(pct), 100)

\* Percentile with the index rounded to the nearest integer
PercentileRounded(sorted, pct) ==
    LET count == Len(sorted)
        index == DRound(DMulInt(Fraction(pct), count), 1)
    IN  IF index < count THEN sorted[index + 1] ELSE sorted[count]

\* sync_durations[int(count * p)] if the index is < count, else the last one
Percentile(sorted, pct) ==
    LET count == Len(sorted)
        index == DTrunc(DMulInt(Fraction(pct), count))
    IN  IF index < count THEN sorted[index + 1] ELSE sorted[count]

AnalyzeSyncDuration(processed) ==
    LET durations == Sorted(AllSyncDurations(processed))
        count == Len(durations)
        ranked == SortByAvgDesc(AppSyncDurations(processed))
    IN  IF count = 0
        THEN [avg_sync_seconds |-> 0, median_sync_seconds |-> 0,
              p95_sync_seconds |-> 0, p99_sync_seconds |-> 0,
              slowest_apps |-> <<>>,
              note |-> "No sync duration data available"]
        ELSE [avg_sync_seconds |-> AvgSeconds(durations),
              median_sync_seconds |-> durations[(count \div 2) + 1] * Tenths,
              p95_sync_seconds |-> Percentile(durations, 95) * Tenths,
              p99_sync_seconds |-> Percentile(durations, 99) * Tenths,
              total_syncs |-> count,
              slowest_apps |-> SubSeq(ranked, 1, Min(SlowestKept, Len(ranked)))]

(***************************************************************************)
(* analyze_by_namespace                                                    *)
(***************************************************************************)
\* namespace_data after the loop: one record per namespace, in insertion order
RECURSIVE NamespaceData(_)
NamespaceData(prs) ==
    IF prs = <<>> THEN <<>>
    ELSE LET r == prs[Len(prs)]
             before == NamespaceData(SubSeq(prs, 1, Len(prs) - 1))
             known == {i \in DOMAIN before : before[i].ns = r.namespace}
         IN  IF r.error THEN before
             ELSE IF known = {}
             THEN Append(before,
                         [ns |-> r.namespace,
                          deployments |-> Len(r.deployments),
                          failures |-> Len(r.failures),
                          recovery_times |-> r.recovery_times,
                          apps |-> {r.app_name}])
             ELSE [i \in DOMAIN before |->
                     IF i \in known
                     THEN [ns |-> r.namespace,
                           deployments |-> before[i].deployments + Len(r.deployments),
                           failures |-> before[i].failures + Len(r.failures),
                           recovery_times |-> before[i].recovery_times \o r.recovery_times,
                           apps |-> before[i].apps \cup {r.app_name}]
                     ELSE before[i]]

\* the metrics of one namespace
NamespaceMetrics(d) ==
    LET failure_rate == FailureRate(d.failures, d.deployments)
        avg_mttr == IF d.recovery_times # <<>> THEN Mean(d.recovery_times) ELSE DFromInt(0)
    IN  [ns |-> d.ns,
         app_count |-> Cardinality(d.apps),
         total_deployments |-> d.deployments,
         failed_deployments |-> d.failures,
         failure_rate |-> DRound(failure_rate, Hundredths),
         avg_mttr_hours |-> DRound(avg_mttr, Hundredths),
         avg_mttr_minutes |-> DRound(DMulInt(avg_mttr, 60), Hundredths),
         dora_level |-> FailureRateLevel(failure_rate)]

\* sorted(items, key=total_deployments, reverse=True): stable
RECURSIVE InsertByDeploysDesc(_, _)
InsertByDeploysDesc(x, s) ==
    IF s = <<>> THEN <<x>>
    ELSE IF x.total_deployments > Head(s).total_deployments THEN <<x>> \o s
    ELSE <<Head(s)>> \o InsertByDeploysDesc(x, Tail(s))

RECURSIVE SortByDeploysDesc(_)
SortByDeploysDesc(s) ==
    IF s = <<>> THEN <<>>
    ELSE InsertByDeploysDesc(s[Len(s)], SortByDeploysDesc(SubSeq(s, 1, Len(s) - 1)))

\* AnalyzeByNamespace without the final sort
AnalyzeByNamespaceUnsorted(processed) ==
    LET data == SelectSeq(NamespaceData(processed), LAMBDA d : d.deployments # 0)
        metrics == [i \in DOMAIN data |-> NamespaceMetrics(data[i])]
    IN  [namespaces |-> metrics,
         total_namespaces |-> Len(metrics)]

\* namespaces with no deployment are skipped
AnalyzeByNamespace(processed) ==
    LET data == SelectSeq(NamespaceData(processed), LAMBDA d : d.deployments # 0)
        metrics == [i \in DOMAIN data |-> NamespaceMetrics(data[i])]
    IN  [namespaces |-> SortByDeploysDesc(metrics),
         total_namespaces |-> Len(metrics)]

(***************************************************************************)
(* calculate_deployment_frequency: the figures computed from the total.    *)
(***************************************************************************)
\* total_deployments / DAYS_TO_ANALYZE if DAYS_TO_ANALYZE > 0 else 0
DeploymentsPerDay(total, days) ==
    IF days > 0 THEN DDivInt(DFromInt(total), days) ELSE DFromInt(0)

\* x >= 1
AtLeastOne(x) == ~DLess(x, DFromInt(1))

\* DeploymentFrequencyLevel with the labels of the week and month tests swapped
DeploymentFrequencyLevelSwapped(total, days) ==
    LET deployments_per_day == DeploymentsPerDay(total, days)
    IN  IF AtLeastOne(deployments_per_day) THEN "elite"
        ELSE IF AtLeastOne(DMulInt(deployments_per_day, 7)) THEN "medium"
        ELSE IF AtLeastOne(DMulInt(deployments_per_day, 30)) THEN "high"
        ELSE "low"

DeploymentFrequencyLevel(total, days) ==
    LET deployments_per_day == DeploymentsPerDay(total, days)
    IN  IF AtLeastOne(deployments_per_day) THEN "elite"
        ELSE IF AtLeastOne(DMulInt(deployments_per_day, 7)) THEN "high"
        ELSE IF AtLeastOne(DMulInt(deployments_per_day, 30)) THEN "medium"
        ELSE "low"

DeploymentFrequency(total, days) ==
    LET deployments_per_day == DeploymentsPerDay(total, days)
    IN  [total_deployments |-> total,
         deployments_per_day |-> DRound(deployments_per_day, Hundredths),
         deployments_per_week |-> DRound(DMulInt(deployments_per_day, 7), Hundredths),
         deployments_per_month |-> DRound(DMulInt(deployments_per_day, 30), Hundredths),
         dora_level |-> DeploymentFrequencyLevel(total, days)]

(***************************************************************************)
(* The change-failure counts of the other two variants: a deployment is a  *)
(* failure when the next history entry follows within the hour.            *)
(***************************************************************************)
BASIC_DAYS_TO_ANALYZE == 30

\* get_application_history: status.history, or [] on any exception
GetApplicationHistory(response) ==
    IF response.kind = "ok" /\ ~response.body.empty /\ response.body.status_ok
    THEN response.body.history
    ELSE <<>>

Parsed(at) == at # Missing /\ at # Unparseable

\* the indices of the entries counted as deployments of a window of `days`
WindowedEntries(h, days) ==
    {i \in DOMAIN h :
        /\ Parsed(h[i].deployedAt)
        /\ end_date - days * SecondsPerDay <= h[i].deployedAt
        /\ h[i].deployedAt <= end_date}

\* argocd_dora_metrics_optimized.py: 0 < time_diff_hours < 1
OptimizedFailures(h) ==
    {i \in WindowedEntries(h, DAYS_TO_ANALYZE) :
        /\ i < Len(h)
        /\ Parsed(h[i + 1].deployedAt)
        /\ LET time_diff_hours == RecoveryHours(h[i + 1].deployedAt - h[i].deployedAt)
           IN  /\ DLess(DFromInt(0), time_diff_hours)
               /\ DLess(time_diff_hours, DFromInt(1))}

\* argocd_dora_metrics.py: time_diff < 1; strptime is not guarded there
BasicFailures(h) ==
    {i \in WindowedEntries(h, BASIC_DAYS_TO_ANALYZE) :
        /\ i < Len(h)
        /\ Parsed(h[i + 1].deployedAt)
        /\ DLess(RecoveryHours(h[i + 1].deployedAt - h[i].deployedAt), DFromInt(1))}

\* the basic variant ends with a ValueError on an unparseable deployedAt
BasicRaises(h) == \E i \in DOMAIN h : h[i].deployedAt = Unparseable

ValueErrorRaised == [raised |-> TRUE]

\* the figures both variants derive from their two counters
RateFigures(failed_deployments, total_deployments) ==
    [total_deployments |-> total_deployments,
     failed_deployments |-> failed_deployments,
     change_failure_rate |->
        DRound(FailureRate(failed_deployments, total_deployments), Hundredths),
     dora_level |-> FailureRateLevel(FailureRate(failed_deployments, total_deployments))]

\* argocd_dora_metrics_optimized.py calculate_change_failure_rate over the
\* histories served to its tasks
OptimizedChangeFailureRate(hs) ==
    RateFigures(SumSeq([i \in DOMAIN hs |-> Cardinality(OptimizedFailures(hs[i]))]),
                SumSeq([i \in DOMAIN hs |->
                          Cardinality(WindowedEntries(hs[i], DAYS_TO_ANALYZE))]))

\* argocd_dora_metrics.py calculate_change_failure_rate
BasicChangeFailureRate(hs) ==
    IF \E i \in DOMAIN hs : BasicRaises(hs[i]) THEN ValueErrorRaised
    ELSE RateFigures(SumSeq([i \in DOMAIN hs |-> Cardinality(BasicFailures(hs[i]))]),
                     SumSeq([i \in DOMAIN hs |->
                               Cardinality(WindowedEntries(hs[i], BASIC_DAYS_TO_ANALYZE))]))

(***************************************************************************)
(* analyze_staleness.  Timestamps are days on an axis whose last day is    *)
(* the day of datetime.now().                                              *)
(***************************************************************************)
StalenessCritical == 180
StalenessWarning == 90
StalenessInfo == 30

Never == -3
StaleNow == MaxStaleDays

\* the days since history[0].deployedAt; 0 without history or parseable time
DaysSinceDeploy(hist) ==
    IF hist = <<>> THEN 0
    ELSE IF hist[1] = Missing \/ hist[1] = Unparseable THEN 0
    ELSE StaleNow - hist[1]

\* StalenessCategory with `and` for `or` in the warning branch
StalenessCategoryWarningAnd(days, sync_status, health_status, auto_sync_enabled) ==
    IF days >= StalenessCritical
    THEN IF sync_status = "Synced" /\ health_status = "Healthy" THEN "stable" ELSE "stale"
    ELSE IF days >= StalenessWarning
    THEN IF sync_status # "Synced" /\ health_status # "Healthy" /\ ~auto_sync_enabled
         THEN "stale" ELSE "stable"
    ELSE IF days >= StalenessInfo THEN "active"
    ELSE "recent"

StalenessCategory(days, sync_status, health_status, auto_sync_enabled) ==
    IF days >= StalenessCritical
    THEN IF sync_status = "Synced" /\ health_status = "Healthy" THEN "stable" ELSE "stale"
    ELSE IF days >= StalenessWarning
    THEN IF sync_status # "Synced" \/ health_status # "Healthy" \/ ~auto_sync_enabled
         THEN "stale" ELSE "stable"
    ELSE IF days >= StalenessInfo THEN "active"
    ELSE "recent"

\* is_problematic is set in the two branches that assign 'stale'
StalenessProblematic(days, sync_status, health_status, auto_sync_enabled) ==
    IF days >= StalenessCritical
    THEN ~(sync_status = "Synced" /\ health_status = "Healthy")
    ELSE IF days >= StalenessWarning
    THEN sync_status # "Synced" \/ health_status # "Healthy" \/ ~auto_sync_enabled
    ELSE FALSE

\* app_data is [history (the deployedAt of each entry), sync_status,
\* health_status, auto_sync_enabled]
AnalyzeStaleness(app_data) ==
    LET days == DaysSinceDeploy(app_data.history)
    IN  [days_since_deploy |-> days,
         last_deployed |-> IF app_data.history # <<>> THEN app_data.history[1] ELSE Never,
         sync_status |-> app_data.sync_status,
         health_status |-> app_data.health_status,
         auto_sync_enabled |-> app_data.auto_sync_enabled,
         category |-> StalenessCategory(days, app_data.sync_status,
                                        app_data.health_status,
                                        app_data.auto_sync_enabled),
         is_problematic |-> StalenessProblematic(days, app_data.sync_status,
                                                 app_data.health_status,
                                                 app_data.auto_sync_enabled)]

(***************************************************************************)
(* analyze_application_staleness over the collected results.  A result is  *)
(* kept with the fields the function reads: app_name, error and staleness. *)
(***************************************************************************)
\* the result of an application whose detail was fetched (l.265-284)
StaleResult(app, app_data) ==
    [app_name |-> app, error |-> FALSE, staleness |-> AnalyzeStaleness(app_data)]

\* the result of an application without detail (l.252-261): no staleness key
StaleErrorMarker(app) == [app_name |-> app, error |-> TRUE, staleness |-> <<>>]

AppInfo(r) ==
    [app_name |-> r.app_name,
     days_since_deploy |-> r.staleness.days_since_deploy,
     last_deployed |-> r.staleness.last_deployed,
     sync_status |-> r.staleness.sync_status,
     health_status |-> r.staleness.health_status,
     auto_sync_enabled |-> r.staleness.auto_sync_enabled]

\* the list a category is appended to: stable, stale, active, else recent
BucketOf(category) ==
    IF category \in {"stable", "stale", "active"} THEN category ELSE "recent"

\* the app_info of the non-error results appended to one list
Bucket(processed, bucket) ==
    LET chosen == SelectSeq(processed,
                            LAMBDA r : ~r.error /\ BucketOf(r.staleness.category) = bucket)
    IN  [i \in DOMAIN chosen |-> AppInfo(chosen[i])]

\* list.sort(key=days_since_deploy, reverse=True): stable
RECURSIVE InsertByDaysDesc(_, _)
InsertByDaysDesc(x, s) ==
    IF s = <<>> THEN <<x>>
    ELSE IF x.days_since_deploy > Head(s).days_since_deploy THEN <<x>> \o s
    ELSE <<Head(s)>> \o InsertByDaysDesc(x, Tail(s))

RECURSIVE SortByDaysDesc(_)
SortByDaysDesc(s) ==
    IF s = <<>> THEN <<>>
    ELSE InsertByDaysDesc(s[Len(s)], SortByDaysDesc(SubSeq(s, 1, Len(s) - 1)))

AnalyzeApplicationStaleness(processed) ==
    [stable_apps |-> SortByDaysDesc(Bucket(processed, "stable")),
     stale_apps |-> SortByDaysDesc(Bucket(processed, "stale")),
     active_apps |-> Bucket(processed, "active"),
     recent_apps |-> Bucket(processed, "recent")]

(***************************************************************************)
(* analyze_chart_compliance.  A version string is the sequence of its      *)
(* character codes.                                                        *)
(***************************************************************************)
Dot == 46
Digit0 == 48
Digit9 == 57

\* v.split('.')
RECURSIVE SplitFrom(_, _)
SplitFrom(v, seg) ==
    IF v = <<>> THEN <<seg>>
    ELSE IF Head(v) = Dot THEN <<seg>> \o SplitFrom(Tail(v), <<>>)
    ELSE SplitFrom(Tail(v), Append(seg, Head(v)))

Split(v) == SplitFrom(v, <<>>)

\* x.isdigit()
IsDigit(x) == x # <<>> /\ \A i \in DOMAIN x : Digit0 <= x[i] /\ x[i] <= Digit9

\* int(x) of a string of digits
RECURSIVE ToInt(_)
ToInt(x) == IF x = <<>> THEN 0 ELSE 10 * ToInt(SubSeq(x, 1, Len(x) - 1)) + (x[Len(x)] - Digit0)

IntElement(n) == [isint |-> TRUE, n |-> n, s |-> <<>>]
StrElement(s) == [isint |-> FALSE, n |-> 0, s |-> s]

\* KeyElement without the conversion to int
KeyElementNoInt(x) == StrElement(x)

\* int(x) if x.isdigit() else x
KeyElement(x) == IF IsDigit(x) THEN IntElement(ToInt(x)) ELSE StrElement(x)

\* the sort key of a version: [int(x) if x.isdigit() else x for x in v.split('.')]
VersionKey(v) == LET segs == Split(v) IN [i \in DOMAIN segs |-> KeyElement(segs[i])]

\* a < b for two strings: by code point, a proper prefix is smaller
RECURSIVE StrLess(_, _)
StrLess(a, b) ==
    IF b = <<>> THEN FALSE
    ELSE IF a = <<>> THEN TRUE
    ELSE IF Head(a) # Head(b) THEN Head(a) < Head(b)
    ELSE StrLess(Tail(a), Tail(b))

\* a < b for two keys (lists): the first pair of unequal elements decides, and
\* an int against a str there raises TypeError; a proper prefix is smaller
RECURSIVE KeyLess(_, _)
KeyLess(a, b) ==
    IF b = <<>> THEN "false"
    ELSE IF a = <<>> THEN "true"
    ELSE IF Head(a) = Head(b) THEN KeyLess(Tail(a), Tail(b))
    ELSE IF Head(a).isint # Head(b).isint THEN "TypeError"
    ELSE IF Head(a).isint THEN (IF Head(a).n < Head(b).n THEN "true" ELSE "false")
    ELSE IF StrLess(Head(a).s, Head(b).s) THEN "true" ELSE "false"

Reverse(s) == [i \in DOMAIN s |-> s[Len(s) + 1 - i]]

\* list.sort on fewer than 64 items, each a [key, value]: count_run finds the
\* run the list starts with, binarysort inserts the other items one by one.
\* The result is [raised, list].
RECURSIVE RunEnd(_, _, _)
RunEnd(items, k, descending) ==
    IF k > Len(items) THEN Len(items)
    ELSE LET less == KeyLess(items[k].key, items[k - 1].key)
         IN  IF less = "TypeError" THEN 0
             ELSE IF (less = "true") = descending THEN RunEnd(items, k + 1, descending)
             ELSE k - 1

\* the position (0-based) where binarysort puts pivot in the sorted prefix, or -1
RECURSIVE BinarySearch(_, _, _, _)
BinarySearch(prefix, pivot, l, r) ==
    IF l >= r THEN l
    ELSE LET p == l + ((r - l) \div 2)
             less == KeyLess(pivot.key, prefix[p + 1].key)
         IN  IF less = "TypeError" THEN -1
             ELSE IF less = "true" THEN BinarySearch(prefix, pivot, l, p)
             ELSE BinarySearch(prefix, pivot, p + 1, r)

RECURSIVE BinarySort(_, _)
BinarySort(items, start) ==
    IF start > Len(items) THEN [raised |-> FALSE, list |-> items]
    ELSE LET prefix == SubSeq(items, 1, start - 1)
             pivot == items[start]
             l == BinarySearch(prefix, pivot, 0, start - 1)
         IN  IF l = -1 THEN [raised |-> TRUE, list |-> items]
             ELSE BinarySort(SubSeq(prefix, 1, l) \o <<pivot>>
                                \o SubSeq(prefix, l + 1, start - 1)
                                \o SubSeq(items, start + 1, Len(items)),
                             start + 1)

ListSort(items) ==
    IF Len(items) < 2 THEN [raised |-> FALSE, list |-> items]
    ELSE LET first == KeyLess(items[2].key, items[1].key)
             descending == first = "true"
             n == RunEnd(items, 3, descending)
             run == SubSeq(items, 1, n)
         IN  IF first = "TypeError" \/ n = 0 THEN [raised |-> TRUE, list |-> items]
             ELSE BinarySort((IF descending THEN Reverse(run) ELSE run)
                                \o SubSeq(items, n + 1, Len(items)),
                             n + 1)

\* sorted(list, key=..., reverse=True): the list is reversed, sorted, reversed
SortedReverse(items) ==
    LET sorted == ListSort(Reverse(items))
    IN  [raised |-> sorted.raised, list |-> Reverse(sorted.list)]

Values(items) == [i \in DOMAIN items |-> items[i].value]

\* version_list_sorted always sorted by the string itself
VersionListSortedByString(version_list) ==
    Values(SortedReverse([i \in DOMAIN version_list |->
              [key |-> <<StrElement(version_list[i])>>, value |-> version_list[i]]]).list)

\* version_list_sorted: by the version key, or by the string itself when the
\* sort by key raises
VersionListSorted(version_list) ==
    LET by_key == SortedReverse([i \in DOMAIN version_list |->
                      [key |-> VersionKey(version_list[i]), value |-> version_list[i]]])
        by_string == SortedReverse([i \in DOMAIN version_list |->
                      [key |-> <<StrElement(version_list[i])>>, value |-> version_list[i]]])
    IN  IF by_key.raised THEN Values(by_string.list) ELSE Values(by_key.list)

\* the keys of a dict filled in list order: the distinct values, first seen first
RECURSIVE Distinct(_)
Distinct(s) ==
    IF s = <<>> THEN <<>>
    ELSE LET before == Distinct(SubSeq(s, 1, Len(s) - 1))
         IN  IF \E i \in DOMAIN before : before[i] = s[Len(s)] THEN before
             ELSE Append(before, s[Len(s)])

\* an application of apps_data is [app_name, chart, version]; chart is NoChart
\* when spec.source has no 'chart' key
NoChart == 0

HelmApps(apps_data) == SelectSeq(apps_data, LAMBDA app : app.chart # NoChart)

\* chart_distribution[chart_name][chart_version]['apps']
AppsOn(apps_data, chart_name, chart_version) ==
    SelectSeq(HelmApps(apps_data),
              LAMBDA app : app.chart = chart_name /\ app.version = chart_version)

\* one entry of chart_summary
ChartSummary(apps_data, chart_name) ==
    LET mine == SelectSeq(HelmApps(apps_data), LAMBDA app : app.chart = chart_name)
        version_list == Distinct([i \in DOMAIN mine |-> mine[i].version])
        version_list_sorted == VersionListSorted(version_list)
        latest_version == version_list_sorted[1]
        total_apps == SumSeq([i \in DOMAIN version_list |->
                                Len(AppsOn(apps_data, chart_name, version_list[i]))])
        apps_on_latest == Len(AppsOn(apps_data, chart_name, latest_version))
    IN  [chart_name |-> chart_name,
         latest_version |-> latest_version,
         total_apps |-> total_apps,
         apps_on_latest |-> apps_on_latest,
         apps_outdated |-> total_apps - apps_on_latest,
         versions |-> [i \in DOMAIN version_list |->
                         [version |-> version_list[i],
                          count |-> Len(AppsOn(apps_data, chart_name, version_list[i])),
                          is_latest |-> version_list[i] = latest_version,
                          apps |-> AppsOn(apps_data, chart_name, version_list[i])]]]

\* the outdated apps of one chart, version after version
RECURSIVE OutdatedOfVersions(_, _)
OutdatedOfVersions(summary, versions) ==
    IF versions = <<>> THEN <<>>
    ELSE LET data == Head(versions)
         IN  (IF data.version # summary.latest_version
              THEN [i \in DOMAIN data.apps |->
                      [app_name |-> data.apps[i].app_name,
                       chart_name |-> summary.chart_name,
                       current_version |-> data.version,
                       latest_version |-> summary.latest_version]]
              ELSE <<>>) \o OutdatedOfVersions(summary, Tail(versions))

RECURSIVE OutdatedOfCharts(_)
OutdatedOfCharts(summaries) ==
    IF summaries = <<>> THEN <<>>
    ELSE OutdatedOfVersions(Head(summaries), Head(summaries).versions)
            \o OutdatedOfCharts(Tail(summaries))

\* outdated_apps.sort(key=(chart_name, app_name)): stable
RECURSIVE InsertByChartApp(_, _)
InsertByChartApp(x, s) ==
    IF s = <<>> THEN <<x>>
    ELSE IF \/ x.chart_name < Head(s).chart_name
            \/ (x.chart_name = Head(s).chart_name /\ x.app_name < Head(s).app_name)
    THEN <<x>> \o s
    ELSE <<Head(s)>> \o InsertByChartApp(x, Tail(s))

RECURSIVE SortByChartApp(_)
SortByChartApp(s) ==
    IF s = <<>> THEN <<>>
    ELSE InsertByChartApp(s[Len(s)], SortByChartApp(SubSeq(s, 1, Len(s) - 1)))

AnalyzeChartCompliance(apps_data) ==
    LET helm_apps == HelmApps(apps_data)
        charts == Distinct([i \in DOMAIN helm_apps |-> helm_apps[i].chart])
        chart_summary == [i \in DOMAIN charts |-> ChartSummary(apps_data, charts[i])]
        outdated_apps == SortByChartApp(OutdatedOfCharts(chart_summary))
    IN  [total_helm_apps |-> Len(helm_apps),
         total_git_apps |-> Len(apps_data) - Len(helm_apps),
         total_charts |-> Len(chart_summary),
         apps_on_latest |-> SumSeq([i \in DOMAIN chart_summary |->
                                      chart_summary[i].apps_on_latest]),
         apps_outdated |-> Len(outdated_apps),
         chart_summary |-> chart_summary,
         outdated_apps |-> outdated_apps]

(***************************************************************************)
(* check_stuck_in_sync.  startedAt of the current operation is a second on *)
(* the time axis; `now` is the second of datetime.now().                   *)
(***************************************************************************)
STUCK_SYNC_THRESHOLD_MINUTES == 30
SecondsPerMinute == 60

NotStuck == [is_stuck |-> FALSE, minutes_stuck |-> 0]

\* CheckStuckInSync with >= for > in the threshold test
CheckStuckInSyncAtLeast(app_data, now) ==
    IF app_data.phase \in {"Running", "Progressing"} /\ app_data.startedAt # Missing
    THEN IF app_data.startedAt = Unparseable THEN NotStuck
         ELSE LET minutes_running ==
                      DDivInt(DFromInt(now - app_data.startedAt), SecondsPerMinute)
              IN  IF ~DLess(minutes_running, DFromInt(STUCK_SYNC_THRESHOLD_MINUTES))
                  THEN [is_stuck |-> TRUE, minutes_stuck |-> DTrunc(minutes_running)]
                  ELSE NotStuck
    ELSE NotStuck

\* (is_stuck, minutes) of the current operation state
CheckStuckInSync(app_data, now) ==
    IF app_data.phase \in {"Running", "Progressing"} /\ app_data.startedAt # Missing
    THEN IF app_data.startedAt = Unparseable THEN NotStuck
         ELSE LET minutes_running ==
                      DDivInt(DFromInt(now - app_data.startedAt), SecondsPerMinute)
              IN  IF DLess(DFromInt(STUCK_SYNC_THRESHOLD_MINUTES), minutes_running)
                  THEN [is_stuck |-> TRUE, minutes_stuck |-> DTrunc(minutes_running)]
                  ELSE NotStuck
    ELSE NotStuck

(***************************************************************************)
(* calculate_lead_time of the three variants.                              *)
(***************************************************************************)
\* the placeholder the enhanced and the optimized variant return
CalculateLeadTime ==
    [avg_lead_time_hours |-> 0, dora_level |-> "unknown",
     note |-> "Lead time calculation requires Git integration"]

\* avg_lead_time compared with 1, 24 and 168
LeadTimeLevel(avg_lead_time) ==
    IF DLess(avg_lead_time, DFromInt(1)) THEN "elite"
    ELSE IF DLess(avg_lead_time, DFromInt(24)) THEN "high"
    ELSE IF DLess(avg_lead_time, DFromInt(168)) THEN "medium"
    ELSE "low"

\* argocd_dora_metrics.py: a placeholder 0 is appended for every deployment
\* of the window and the level is derived from the mean of the placeholders
BasicCalculateLeadTime(hs) ==
    LET lead_times == SumSeq([i \in DOMAIN hs |->
                                Cardinality(WindowedEntries(hs[i], BASIC_DAYS_TO_ANALYZE))])
        avg_lead_time == DDivInt(DFromInt(0), lead_times)
    IN  IF \E i \in DOMAIN hs : BasicRaises(hs[i]) THEN ValueErrorRaised
        ELSE IF lead_times = 0 THEN CalculateLeadTime
        ELSE [avg_lead_time_hours |-> DRound(avg_lead_time, Hundredths),
              dora_level |-> LeadTimeLevel(avg_lead_time),
              note |-> "Lead time requires Git commit data integration"]

(***************************************************************************)
(* The overall assessment of print_dora_summary and of the dashboard.      *)
(***************************************************************************)
LevelScore(level) ==
    CASE level = "elite" -> 4
      [] level = "high" -> 3
      [] level = "medium" -> 2
      [] level = "low" -> 1
      [] level = "unknown" -> 0

\* valid_levels = [l for l in levels if l != 'unknown']
ValidLevels(levels) == SelectSeq(levels, LAMBDA l : l # "unknown")

\* the level of the average score of the valid levels: >= 3.5, >= 2.5, >= 1.5
AverageScoreLevel(valid_levels) ==
    LET avg_score == DDivInt(DFromInt(SumSeq([i \in DOMAIN valid_levels |->
                                                LevelScore(valid_levels[i])])),
                             Len(valid_levels))
        Halves(n) == DDivInt(DFromInt(n), 2)
    IN  IF ~DLess(avg_score, Halves(7)) THEN "ELITE"
        ELSE IF ~DLess(avg_score, Halves(5)) THEN "HIGH"
        ELSE IF ~DLess(avg_score, Halves(3)) THEN "MEDIUM"
        ELSE "LOW"

\* print_dora_summary prints the overall line only when a level is valid
NotPrinted == "(nothing printed)"

PrintDoraSummaryOverall(levels) ==
    IF ValidLevels(levels) # <<>> THEN AverageScoreLevel(ValidLevels(levels))
    ELSE NotPrinted

\* generate_dora_dashboard.py: overall_level, with its else branch
DashboardOverall(levels) ==
    IF ValidLevels(levels) # <<>> THEN AverageScoreLevel(ValidLevels(levels))
    ELSE "UNKNOWN"

VARIABLES history, idx, result, previous_failed, failure_time, scan_pc

scanVars == <<history, idx, result, previous_failed, failure_time, scan_pc>>

VARIABLES future, processed_results, processed, api_call_count, deployment_freq, pc, report,
          listing, refetched

dispVars == <<future, processed_results, processed, api_call_count, deployment_freq, pc, report,
              listing, refetched>>

VARIABLES total_lo, total_hi, days_to_analyze, frequency_lo, frequency_hi

freqVars == <<total_lo, total_hi, days_to_analyze, frequency_lo, frequency_hi>>

VARIABLES stale_app_data, staleness, stale_results, stale_buckets

staleVars == <<stale_app_data, staleness, stale_results, stale_buckets>>

VARIABLES apps_data, chart_compliance

chartVars == <<apps_data, chart_compliance>>

VARIABLES served, failure_rate, mttr, lead_time, sync_performance, namespace_breakdown

cfrVars == <<served, failure_rate, mttr, lead_time, sync_performance, namespace_breakdown>>

VARIABLES stuck_app_data, stuck

stuckVars == <<stuck_app_data, stuck>>

VARIABLES levels, overall

overallVars == <<levels, overall>>

VARIABLES lock, call_pc, loaded, calls

lockVars == <<lock, call_pc, loaded, calls>>

vars == <<scanVars, dispVars, freqVars, staleVars, chartVars, cfrVars,
          stuckVars, overallVars, lockVars>>

NotComputed == <<>>

(***************************************************************************)
(* process_single_app on one history, entry by entry.                      *)
(***************************************************************************)
\* the instants a scanned entry can carry: the last MaxTime seconds of the
\* window, the second before the window and the second after it
ScanTimes ==
    {end_date - k : k \in 0..(MaxTime - 1)} \cup {start_date - 1, end_date + 1}

\* the entries a scanned history is drawn from; the operation's start time is
\* absent, and a failed resource is drawn with the phase Succeeded
ScanEntries ==
    {Entry(at, ph, FALSE, Missing, Missing) : at \in ScanTimes, ph \in Phases}
    \cup {Entry(at, "Succeeded", TRUE, Missing, Missing) : at \in ScanTimes}
    \cup {Entry(Missing, "Succeeded", FALSE, Missing, Missing),
          Entry(Unparseable, "Succeeded", FALSE, Missing, Missing)}

ScanState == [result |-> result, previous_failed |-> previous_failed,
              failure_time |-> failure_time]

InitScan ==
    /\ history = <<>>
    /\ idx = 0
    /\ result = ScanInit.result
    /\ previous_failed = ScanInit.previous_failed
    /\ failure_time = ScanInit.failure_time
    /\ scan_pc = "loop"

\* the loop body on the next entry the history iterator yields
ScanEntry(e) ==
    /\ scan_pc = "loop"
    /\ Len(history) < MaxHist
    /\ history' = Append(history, e)
    /\ idx' = idx + 1
    /\ LET s == ScanStep(ScanState, e)
       IN  /\ result' = s.result
           /\ previous_failed' = s.previous_failed
           /\ failure_time' = s.failure_time
    /\ UNCHANGED scan_pc

\* the history is exhausted: return result
ScanReturn ==
    /\ scan_pc = "loop"
    /\ scan_pc' = "returned"
    /\ UNCHANGED <<history, idx, result, previous_failed, failure_time>>

NextScan ==
    \/ (\E e \in ScanEntries : ScanEntry(e))
          /\ UNCHANGED <<dispVars, freqVars, staleVars, chartVars, cfrVars, stuckVars, overallVars, lockVars>>
    \/ ScanReturn /\ UNCHANGED <<dispVars, freqVars, staleVars, chartVars, cfrVars, stuckVars, overallVars, lockVars>>

\* entries whose operation carries start and finish times: durations that
\* are positive, zero and negative, times that are absent or do not parse,
\* and entries whose deployedAt is absent, does not parse or lies outside
\* the window
TimedEntries ==
    {Entry(end_date - 2, "Succeeded", FALSE, end_date - 4, Missing),
     Entry(end_date - 1, "Failed", FALSE, end_date - 3, end_date - 1),
     Entry(end_date - 3, "Failed", FALSE, Missing, Missing),
     Entry(end_date, "Succeeded", FALSE, end_date, end_date),
     Entry(end_date, "Succeeded", FALSE, end_date, end_date - 1),
     Entry(end_date - 1, "Succeeded", TRUE, Unparseable, end_date - 1),
     Entry(end_date, "Error", FALSE, end_date - 1, Unparseable),
     Entry(Missing, "Failed", FALSE, end_date - 2, end_date - 1),
     Entry(Unparseable, "Succeeded", FALSE, end_date - 2, end_date - 1),
     Entry(Unparseable, "Failed", TRUE, end_date - 2, end_date),
     Entry(Missing, "Succeeded", FALSE, Missing, Missing),
     Entry(start_date - 1, "Failed", FALSE, start_date - 3, start_date - 1)}

NextTimed ==
    \/ (\E e \in TimedEntries : ScanEntry(e))
          /\ UNCHANGED <<dispVars, freqVars, staleVars, chartVars, cfrVars, stuckVars, overallVars, lockVars>>
    \/ ScanReturn /\ UNCHANGED <<dispVars, freqVars, staleVars, chartVars, cfrVars, stuckVars, overallVars, lockVars>>

(***************************************************************************)
(* generate_dora_report: the dispatcher loop, the fetch round of           *)
(* calculate_deployment_frequency and the folds over processed_results.    *)
(***************************************************************************)
MAX_WORKERS == 20

\* the application list of the run; the name is the identity of an application
Apps == 1..NumApps

\* histories the gateway serves in the dispatcher runs
SampleHistories ==
    { <<>>,
      <<Entry(end_date - 7200, "Failed", FALSE, Missing, Missing),
        Entry(end_date - 7140, "Succeeded", FALSE, end_date - 7170, Missing)>>,
      <<Entry(end_date - 3600, "Succeeded", TRUE, Missing, Missing),
        Entry(end_date - 3420, "Succeeded", FALSE, end_date - 3465, end_date - 3420)>>,
      <<Entry(end_date - 20000, "Error", FALSE, end_date - 20000, end_date - 20000),
        Entry(end_date - 9440, "Succeeded", FALSE, Missing, Missing)>>,
      <<Entry(start_date - 1, "Failed", FALSE, Missing, Missing),
        Entry(end_date - 50, "Error", FALSE, end_date - 62, end_date - 50),
        Entry(Unparseable, "Succeeded", FALSE, Missing, Missing),
        Entry(end_date - 10, "Failed", FALSE, end_date - 20, Unparseable)>> }

\* what one detail call can answer
Responses ==
    {Timeout, HttpError, Ok(AppData(FALSE, <<>>))}
    \cup {Ok(AppData(TRUE, h)) : h \in SampleHistories}

NoResponse == [kind |-> "none", body |-> EmptyAppData]

\* what the task of each application ends with, for each answer of its call
TaskOutcome == [a \in Apps |-> [response \in Responses |-> ProcessSingleApp(a, response)]]

\* what a completed future holds
Outcome(a) == TaskOutcome[a][future[a].response]

InitDisp ==
    /\ future = [a \in Apps |-> [state |-> "submitted", response |-> NoResponse]]
    /\ processed_results = <<>>
    /\ processed = 0
    /\ api_call_count = 0
    /\ deployment_freq = NotComputed
    /\ pc = "listing"
    /\ report = NotComputed
    /\ listing = "none"
    /\ refetched = [a \in Apps |-> NoResponse]

\* what GET /api/v1/applications and the filter leave: the request fails, the
\* list is empty, the filter drops every item, or the applications are returned
Listings == {"error", "empty", "filtered", "apps"}

\* get_applications: [] on any exception, else the filtered items
GetApplications(answer) == IF answer = "apps" THEN Apps ELSE {}

\* the value generate_dora_report returns when `not apps`
NoReport == [returned |-> "None"]

\* apps = self.get_applications(); if not apps: return None
ListApplications(answer) ==
    /\ pc = "listing"
    /\ listing' = answer
    /\ IF GetApplications(answer) = {}
       THEN pc' = "returned" /\ report' = NoReport
       ELSE pc' = "dispatch" /\ report' = report
    /\ UNCHANGED <<future, processed_results, processed, api_call_count,
                   deployment_freq, refetched>>

Running == {a \in Apps : future[a].state = "running"}

\* a worker picks the task up: get_application_details counts the call under the lock
StartTask(a) ==
    /\ pc = "dispatch"
    /\ future[a].state = "submitted"
    /\ Cardinality(Running) < MAX_WORKERS
    /\ future' = [future EXCEPT ![a].state = "running"]
    /\ api_call_count' = api_call_count + 1
    /\ UNCHANGED <<processed_results, processed, deployment_freq, pc, report,
                   listing, refetched>>

\* the detail call answers and process_single_app runs to its end
FinishTask(a, response) ==
    /\ pc = "dispatch"
    /\ future[a].state = "running"
    /\ future' = [future EXCEPT ![a] = [state |-> "done", response |-> response]]
    /\ UNCHANGED <<processed_results, processed, api_call_count, deployment_freq, pc, report,
                   listing, refetched>>

\* what the collector does with a completed future
Collected(results, outcome) ==
    IF outcome.raised THEN results ELSE Append(results, outcome.result)

\* one iteration of `for future in as_completed(futures)`
Collect(a) ==
    /\ pc = "dispatch"
    /\ future[a].state = "done"
    /\ processed' = processed + 1
    /\ processed_results' = Collected(processed_results, Outcome(a))
    /\ future' = [future EXCEPT ![a].state = "yielded"]
    /\ UNCHANGED <<api_call_count, deployment_freq, pc, report, listing, refetched>>

\* as_completed is exhausted and the executor is shut down
LoopExit ==
    /\ pc = "dispatch"
    /\ \A a \in Apps : future[a].state = "yielded"
    /\ pc' = "frequency"
    /\ UNCHANGED <<future, processed_results, processed, api_call_count,
                   deployment_freq, report, listing, refetched>>

\* the deployments one task of the frequency round adds to the total
FrequencyCount(outcome) ==
    IF outcome.raised \/ outcome.result.error THEN 0 ELSE Len(outcome.result.deployments)

\* the sets of applications whose second detail call times out: none, or the
\* first application
LostSets == {{}, {1}}

\* the sets of applications whose second detail call answers with LateHistory
\* whatever the first call answered: none, or the first application
FoundSets == {{}, {1}}

\* the history a detail call of the second round can answer with
LateHistory == <<Entry(end_date - 100, "Succeeded", FALSE, Missing, Missing)>>

\* calculate_deployment_frequency(apps): every application is fetched and
\* scanned once more; the calls of `lost` time out, those of `found` answer
\* with LateHistory, the others answer as before
FrequencyRound(lost, found) ==
    /\ pc = "frequency"
    /\ LET again == [a \in Apps |->
                        IF a \in lost THEN Timeout
                        ELSE IF a \in found THEN Ok(AppData(TRUE, LateHistory))
                        ELSE future[a].response]
           total_deployments ==
               SumSeq([a \in Apps |-> FrequencyCount(ProcessSingleApp(a, again[a]))])
       IN  /\ refetched' = again
           /\ deployment_freq' = DeploymentFrequency(total_deployments, DAYS_TO_ANALYZE)
    /\ api_call_count' = api_call_count + NumApps
    /\ pc' = "metrics"
    /\ UNCHANGED <<future, processed_results, processed, report, listing>>

\* the metrics and insights computed from processed_results, and the report
ComputeMetrics ==
    /\ pc = "metrics"
    /\ report' = [total_applications |-> NumApps,
                  api_calls_made |-> api_call_count,
                  deployment_frequency |-> deployment_freq,
                  lead_time_for_changes |-> CalculateLeadTime,
                  change_failure_rate |-> CalculateChangeFailureRate(processed_results),
                  mean_time_to_recovery |-> CalculateMttr(processed_results),
                  sync_performance |-> AnalyzeSyncDuration(processed_results),
                  namespace_breakdown |-> AnalyzeByNamespace(processed_results)]
    /\ pc' = "done"
    /\ UNCHANGED <<future, processed_results, processed, api_call_count, deployment_freq,
                   listing, refetched>>

NextDisp ==
    \/ (\E answer \in Listings : ListApplications(answer))
          /\ UNCHANGED <<scanVars, freqVars, staleVars, chartVars, cfrVars, stuckVars, overallVars, lockVars>>
    \/ (\E a \in Apps : StartTask(a))
          /\ UNCHANGED <<scanVars, freqVars, staleVars, chartVars, cfrVars, stuckVars, overallVars, lockVars>>
    \/ (\E a \in Apps, response \in Responses : FinishTask(a, response))
          /\ UNCHANGED <<scanVars, freqVars, staleVars, chartVars, cfrVars, stuckVars, overallVars, lockVars>>
    \/ (\E a \in Apps : Collect(a))
          /\ UNCHANGED <<scanVars, freqVars, staleVars, chartVars, cfrVars, stuckVars, overallVars, lockVars>>
    \/ LoopExit /\ UNCHANGED <<scanVars, freqVars, staleVars, chartVars, cfrVars, stuckVars, overallVars, lockVars>>
    \/ (\E lost \in LostSets, found \in FoundSets : FrequencyRound(lost, found))
          /\ UNCHANGED <<scanVars, freqVars, staleVars, chartVars, cfrVars, stuckVars, overallVars, lockVars>>
    \/ ComputeMetrics /\ UNCHANGED <<scanVars, freqVars, staleVars, chartVars, cfrVars, stuckVars, overallVars, lockVars>>

\* the answers of the detail call in the runs checked for termination: the
\* call times out, answers with a body whose "status" is not an object, or
\* answers with an application that has no history
PoolResponses == {Timeout, Ok(AppData(FALSE, <<>>)), Ok(AppData(TRUE, <<>>))}

\* the steps of one run of generate_dora_report in which every detail call
\* returns or times out
PoolList == (\E answer \in Listings : ListApplications(answer)) /\ UNCHANGED <<scanVars, freqVars, staleVars, chartVars, cfrVars, stuckVars, overallVars, lockVars>>

PoolStart == (\E a \in Apps : StartTask(a)) /\ UNCHANGED <<scanVars, freqVars, staleVars, chartVars, cfrVars, stuckVars, overallVars, lockVars>>

PoolFinish ==
    (\E a \in Apps, response \in PoolResponses : FinishTask(a, response)) /\ UNCHANGED <<scanVars, freqVars, staleVars, chartVars, cfrVars, stuckVars, overallVars, lockVars>>

PoolCollect == (\E a \in Apps : Collect(a)) /\ UNCHANGED <<scanVars, freqVars, staleVars, chartVars, cfrVars, stuckVars, overallVars, lockVars>>

PoolExit == LoopExit /\ UNCHANGED <<scanVars, freqVars, staleVars, chartVars, cfrVars, stuckVars, overallVars, lockVars>>

PoolFrequency ==
    (\E lost \in LostSets, found \in FoundSets : FrequencyRound(lost, found)) /\ UNCHANGED <<scanVars, freqVars, staleVars, chartVars, cfrVars, stuckVars, overallVars, lockVars>>

PoolMetrics == ComputeMetrics /\ UNCHANGED <<scanVars, freqVars, staleVars, chartVars, cfrVars, stuckVars, overallVars, lockVars>>

NextPool ==
    \/ PoolList
    \/ PoolStart
    \/ PoolFinish
    \/ PoolCollect
    \/ PoolExit
    \/ PoolFrequency
    \/ PoolMetrics

\* The main thread and the workers go on: the listing call returns, the
\* executor runs every submitted task, a detail call returns or times out
\* (timeout=10), as_completed yields every completed future, the executor
\* block is left, and the two computations that follow return.  The last two
\* are stated on the step of pc they take: they are possible exactly when pc
\* is "frequency" or "metrics".
PoolFairness ==
    /\ WF_vars(PoolList)
    /\ WF_vars(PoolStart)
    /\ WF_vars(PoolFinish)
    /\ WF_vars(PoolCollect)
    /\ WF_vars(PoolExit)
    /\ WF_pc(pc = "frequency" /\ pc' = "metrics")
    /\ WF_pc(pc = "metrics" /\ pc' = "done")

(***************************************************************************)
(* The deployment-frequency figures of two totals over one window.         *)
(***************************************************************************)
\* Idle*: the values a group of variables keeps in a specification whose
\* actions belong to another function
IdleFreq ==
    /\ total_lo = 0 /\ total_hi = 0 /\ days_to_analyze = 0
    /\ frequency_lo = NotComputed /\ frequency_hi = NotComputed

IdleStale ==
    /\ stale_app_data = [history |-> <<>>, sync_status |-> "Unknown",
                         health_status |-> "Unknown", auto_sync_enabled |-> FALSE]
    /\ staleness = NotComputed
    /\ stale_results = <<>>
    /\ stale_buckets = NotComputed

IdleChart ==
    /\ apps_data = <<>>
    /\ chart_compliance = NotComputed

IdleCfr ==
    /\ served = <<>>
    /\ failure_rate = NotComputed
    /\ mttr = NotComputed
    /\ lead_time = NotComputed
    /\ sync_performance = NotComputed
    /\ namespace_breakdown = NotComputed

IdleStuck ==
    /\ stuck_app_data = [phase |-> "", startedAt |-> Missing]
    /\ stuck = NotComputed

IdleOverall ==
    /\ levels = <<>>
    /\ overall = NotComputed

\* the value of the lock no thread holds
NoOwner == 0

\* the worker threads of the executor that run get_application_details
Threads == 1..NumThreads

IdleLock ==
    /\ lock = NoOwner
    /\ call_pc = [c \in Threads |-> "idle"]
    /\ loaded = [c \in Threads |-> 0]
    /\ calls = [c \in Threads |-> 0]

IdleRest == IdleStuck /\ IdleOverall /\ IdleLock

InitFreq ==
    /\ InitScan /\ InitDisp /\ IdleStale /\ IdleChart /\ IdleCfr /\ IdleRest
    /\ days_to_analyze \in 0..MaxDays
    /\ total_hi \in 0..MaxTotal
    /\ total_lo \in 0..total_hi
    /\ frequency_lo = NotComputed /\ frequency_hi = NotComputed

CalculateDeploymentFrequency ==
    /\ frequency_lo = NotComputed
    /\ frequency_lo' = DeploymentFrequency(total_lo, days_to_analyze)
    /\ frequency_hi' = DeploymentFrequency(total_hi, days_to_analyze)
    /\ UNCHANGED <<total_lo, total_hi, days_to_analyze>>

NextFreq ==
    CalculateDeploymentFrequency /\ UNCHANGED <<scanVars, dispVars, staleVars, chartVars, cfrVars, stuckVars, overallVars, lockVars>>

(***************************************************************************)
(* analyze_staleness on one application.                                   *)
(***************************************************************************)
SyncStatuses == {"Synced", "OutOfSync", "Unknown"}
HealthStatuses == {"Healthy", "Degraded", "Unknown"}

\* deployedAt of the first history entry: any day up to tomorrow, or a marker;
\* a second entry, when present, is the first or the last day of the axis
StaleHistories ==
    {<<>>}
    \cup {<<d>> : d \in (0..(MaxStaleDays + 1)) \cup {Missing, Unparseable}}
    \cup {<<d, e>> : d \in {0, StaleNow - StalenessWarning, StaleNow}, e \in {0, StaleNow}}

InitStale ==
    /\ InitScan /\ InitDisp /\ IdleFreq /\ IdleChart /\ IdleCfr /\ IdleRest
    /\ stale_app_data \in [history : StaleHistories, sync_status : SyncStatuses,
                            health_status : HealthStatuses, auto_sync_enabled : BOOLEAN]
    /\ staleness = NotComputed
    /\ stale_results = <<>>
    /\ stale_buckets = NotComputed

AnalyzeStalenessCall ==
    /\ staleness = NotComputed
    /\ staleness' = AnalyzeStaleness(stale_app_data)
    /\ UNCHANGED <<stale_app_data, stale_results, stale_buckets>>

NextStale ==
    AnalyzeStalenessCall /\ UNCHANGED <<scanVars, dispVars, freqVars, chartVars, cfrVars, stuckVars, overallVars, lockVars>>

(***************************************************************************)
(* analyze_application_staleness on the results of one run.                *)
(***************************************************************************)
\* the application states the results are classified from: last deployed
\* 10, 40, 100 or 200 days ago; synced and healthy with or without automated
\* sync, or out of sync
BucketAppData ==
    {[history |-> <<StaleNow - d>>, sync_status |-> st[1], health_status |-> "Healthy",
      auto_sync_enabled |-> st[2]] :
        d \in {10, 40, 100, 200},
        st \in {<<"Synced", TRUE>>, <<"Synced", FALSE>>, <<"OutOfSync", TRUE>>}}

\* the dispatcher collects the result of an application whose detail came
CollectStaleResult(app_data) ==
    /\ stale_buckets = NotComputed
    /\ Len(stale_results) < NumApps
    /\ stale_results' = Append(stale_results, StaleResult(Len(stale_results) + 1, app_data))
    /\ UNCHANGED <<stale_app_data, staleness, stale_buckets>>

\* the dispatcher collects the marker of an application whose fetch failed
CollectStaleMarker ==
    /\ stale_buckets = NotComputed
    /\ Len(stale_results) < NumApps
    /\ stale_results' = Append(stale_results, StaleErrorMarker(Len(stale_results) + 1))
    /\ UNCHANGED <<stale_app_data, staleness, stale_buckets>>

AnalyzeApplicationStalenessCall ==
    /\ stale_buckets = NotComputed
    /\ stale_buckets' = AnalyzeApplicationStaleness(stale_results)
    /\ UNCHANGED <<stale_app_data, staleness, stale_results>>

NextBuckets ==
    \/ (\E app_data \in BucketAppData : CollectStaleResult(app_data))
          /\ UNCHANGED <<scanVars, dispVars, freqVars, chartVars, cfrVars, stuckVars, overallVars, lockVars>>
    \/ CollectStaleMarker
          /\ UNCHANGED <<scanVars, dispVars, freqVars, chartVars, cfrVars, stuckVars, overallVars, lockVars>>
    \/ AnalyzeApplicationStalenessCall
          /\ UNCHANGED <<scanVars, dispVars, freqVars, chartVars, cfrVars, stuckVars, overallVars, lockVars>>

(***************************************************************************)
(* analyze_chart_compliance on one application list.                       *)
(***************************************************************************)
\* "1.2.0", "1.10.0", "1.9.0", "1.02.0", "1.2", "1.x", "10.x", "9.x"
V_1_2_0 == <<49, 46, 50, 46, 48>>
V_1_10_0 == <<49, 46, 49, 48, 46, 48>>
V_1_9_0 == <<49, 46, 57, 46, 48>>
V_1_02_0 == <<49, 46, 48, 50, 46, 48>>
V_1_2 == <<49, 46, 50>>
V_1_x == <<49, 46, 120>>
V_10_x == <<49, 48, 46, 120>>
V_9_x == <<57, 46, 120>>

ChartVersions == {V_1_2_0, V_1_10_0, V_1_9_0, V_1_02_0, V_1_2, V_1_x, V_10_x, V_9_x}

\* the charts of the run, in the order of their names
ChartNames == {1, 2}

\* targetRevision of an application deployed from a Git repository: "main"
Branch == <<109, 97, 105, 110>>

\* what spec.source of one application can be
Sources ==
    {[chart |-> NoChart, version |-> Branch]}
    \cup {[chart |-> c, version |-> v] : c \in ChartNames, v \in ChartVersions}

\* the application list: the application named n has the source sources[n]
AppsWith(sources) ==
    [n \in DOMAIN sources |->
        [app_name |-> n, chart |-> sources[n].chart, version |-> sources[n].version]]

InitChart ==
    /\ InitScan /\ InitDisp /\ IdleFreq /\ IdleStale /\ IdleCfr /\ IdleRest
    /\ \E sources \in [1..NumApps -> Sources] : apps_data = AppsWith(sources)
    /\ chart_compliance = NotComputed

AnalyzeChartComplianceCall ==
    /\ chart_compliance = NotComputed
    /\ chart_compliance' = AnalyzeChartCompliance(apps_data)
    /\ UNCHANGED apps_data

NextChart ==
    AnalyzeChartComplianceCall /\ UNCHANGED <<scanVars, dispVars, freqVars, staleVars, cfrVars, stuckVars, overallVars, lockVars>>

(***************************************************************************)
(* calculate_change_failure_rate of the three variants on the answers of   *)
(* one round of detail calls.                                              *)
(***************************************************************************)
\* processed_results when the futures complete in the order of `outcomes`
RECURSIVE CollectAll(_)
CollectAll(outcomes) ==
    IF outcomes = <<>> THEN <<>>
    ELSE Collected(CollectAll(SubSeq(outcomes, 1, Len(outcomes) - 1)),
                   outcomes[Len(outcomes)])

\* histories with a recovery of 168 hours (the whole window) and of 48 hours
LongHistories ==
    { <<Entry(start_date, "Failed", FALSE, Missing, Missing),
        Entry(end_date, "Succeeded", FALSE, Missing, Missing)>>,
      <<Entry(end_date - 2 * SecondsPerDay, "Error", FALSE, Missing, Missing),
        Entry(end_date, "Succeeded", FALSE, Missing, Missing)>> }

\* what the detail calls of the round answer
FoldResponses == Responses \cup {Ok(AppData(TRUE, h)) : h \in LongHistories}

InitCfr ==
    /\ InitScan /\ InitDisp /\ IdleFreq /\ IdleStale /\ IdleChart /\ IdleRest
    /\ served \in [Apps -> FoldResponses]
    /\ failure_rate = NotComputed
    /\ mttr = NotComputed
    /\ lead_time = NotComputed
    /\ sync_performance = NotComputed
    /\ namespace_breakdown = NotComputed

\* a history of n in-window deployments, all succeeded, whose operations took
\* base + 1, ..., base + n seconds
RunHistory(n, base) ==
    [k \in 1..n |-> Entry(end_date - k, "Succeeded", FALSE, end_date - k - (base + k), Missing)]

\* the answers the insights are computed from: none, 1, 2 or 11 timed
\* deployments, a failure with its recovery, or a timeout
SyncResponses ==
    {Timeout, Ok(AppData(TRUE, <<>>)), Ok(AppData(TRUE, RunHistory(1, 0))),
     Ok(AppData(TRUE, RunHistory(2, 10))), Ok(AppData(TRUE, RunHistory(11, 20))),
     Ok(AppData(TRUE, RunHistory(11, 40)))}
    \cup {Ok(AppData(TRUE, h)) : h \in LongHistories}

InitSync ==
    /\ InitScan /\ InitDisp /\ IdleFreq /\ IdleStale /\ IdleChart /\ IdleRest
    /\ served \in [Apps -> SyncResponses]
    /\ failure_rate = NotComputed
    /\ mttr = NotComputed
    /\ lead_time = NotComputed
    /\ sync_performance = NotComputed
    /\ namespace_breakdown = NotComputed

\* processed_results of the round, collected in the order of the application list
ServedResults == CollectAll([a \in Apps |-> ProcessSingleApp(a, served[a])])

\* the histories get_application_history returns to the other two variants
ServedHistories == [a \in Apps |-> GetApplicationHistory(served[a])]

\* the metrics are computed in the order of generate_dora_report: lead time,
\* change failure rate, MTTR
CalculateChangeFailureRateCall ==
    /\ lead_time # NotComputed
    /\ failure_rate = NotComputed
    /\ failure_rate' =
          [enhanced |-> CalculateChangeFailureRate(ServedResults),
           optimized |-> OptimizedChangeFailureRate(ServedHistories),
           basic |-> BasicChangeFailureRate(ServedHistories)]
    /\ UNCHANGED <<served, mttr, lead_time, sync_performance, namespace_breakdown>>

CalculateMttrCall ==
    /\ failure_rate # NotComputed
    /\ mttr = NotComputed
    /\ mttr' = CalculateMttr(ServedResults)
    /\ UNCHANGED <<served, failure_rate, lead_time, sync_performance, namespace_breakdown>>

CalculateLeadTimeCall ==
    /\ lead_time = NotComputed
    /\ lead_time' = [enhanced |-> CalculateLeadTime,
                     optimized |-> CalculateLeadTime,
                     basic |-> BasicCalculateLeadTime(ServedHistories)]
    /\ UNCHANGED <<served, failure_rate, mttr, sync_performance, namespace_breakdown>>

\* the insights follow the metrics: sync_performance, then namespace_breakdown
AnalyzeSyncDurationCall ==
    /\ mttr # NotComputed
    /\ sync_performance = NotComputed
    /\ sync_performance' = AnalyzeSyncDuration(ServedResults)
    /\ UNCHANGED <<served, failure_rate, mttr, lead_time, namespace_breakdown>>

AnalyzeByNamespaceCall ==
    /\ sync_performance # NotComputed
    /\ namespace_breakdown = NotComputed
    /\ namespace_breakdown' = AnalyzeByNamespace(ServedResults)
    /\ UNCHANGED <<served, failure_rate, mttr, lead_time, sync_performance>>

NextCfr ==
    \/ AnalyzeSyncDurationCall
          /\ UNCHANGED <<scanVars, dispVars, freqVars, staleVars, chartVars, stuckVars, overallVars, lockVars>>
    \/ AnalyzeByNamespaceCall
          /\ UNCHANGED <<scanVars, dispVars, freqVars, staleVars, chartVars, stuckVars, overallVars, lockVars>>
    \/ CalculateChangeFailureRateCall
          /\ UNCHANGED <<scanVars, dispVars, freqVars, staleVars, chartVars, stuckVars, overallVars, lockVars>>
    \/ CalculateMttrCall
          /\ UNCHANGED <<scanVars, dispVars, freqVars, staleVars, chartVars, stuckVars, overallVars, lockVars>>
    \/ CalculateLeadTimeCall
          /\ UNCHANGED <<scanVars, dispVars, freqVars, staleVars, chartVars, stuckVars, overallVars, lockVars>>

(***************************************************************************)
(* check_stuck_in_sync on one current operation state.                     *)
(***************************************************************************)
\* the second of datetime.now(); the operation started a multiple of half a
\* minute before it, or half a minute after it
StuckNow == MaxStuckTicks * (SecondsPerMinute \div 2)

StuckStarts ==
    {StuckNow - k * (SecondsPerMinute \div 2) : k \in (-1)..MaxStuckTicks}
    \cup {Missing, Unparseable}

StuckPhases == Phases \cup {"Running", "Progressing", ""}

InitStuck ==
    /\ InitScan /\ InitDisp /\ IdleFreq /\ IdleStale /\ IdleChart /\ IdleCfr
    /\ IdleOverall /\ IdleLock
    /\ stuck_app_data \in [phase : StuckPhases, startedAt : StuckStarts]
    /\ stuck = NotComputed

CheckStuckInSyncCall ==
    /\ stuck = NotComputed
    /\ stuck' = CheckStuckInSync(stuck_app_data, StuckNow)
    /\ UNCHANGED stuck_app_data

NextStuck ==
    CheckStuckInSyncCall
        /\ UNCHANGED <<scanVars, dispVars, freqVars, staleVars, chartVars, cfrVars, overallVars, lockVars>>

(***************************************************************************)
(* The overall assessment of the four metric levels of a report.           *)
(***************************************************************************)
MetricLevels == {"elite", "high", "medium", "low", "unknown"}

\* levels = [df, lt, cfr, mttr]
InitOverall ==
    /\ InitScan /\ InitDisp /\ IdleFreq /\ IdleStale /\ IdleChart /\ IdleCfr
    /\ IdleStuck /\ IdleLock
    /\ levels \in [1..4 -> MetricLevels]
    /\ overall = NotComputed

OverallAssessment ==
    /\ overall = NotComputed
    /\ overall' = [summary |-> PrintDoraSummaryOverall(levels),
                   dashboard |-> DashboardOverall(levels)]
    /\ UNCHANGED levels

NextOverall ==
    OverallAssessment
        /\ UNCHANGED <<scanVars, dispVars, freqVars, staleVars, chartVars, cfrVars, stuckVars, lockVars>>

(***************************************************************************)
(* The upstream-call counter: `with self.lock: self.api_call_count += 1`   *)
(* of get_application_details, run by the worker threads.  The in-place    *)
(* addition is a load and a store, between which threads can switch.       *)
(***************************************************************************)
\* LockFree for a lock that never blocks
LockFreeAlways(l) == TRUE

\* threading.Lock: acquire blocks while another thread holds the lock
LockFree(l) == l = NoOwner

CallKinds == {"ok", "timeout", "error"}

InitLock ==
    /\ InitScan /\ InitDisp /\ IdleFreq /\ IdleStale /\ IdleChart /\ IdleCfr
    /\ IdleStuck /\ IdleOverall
    /\ IdleLock

dispRest == <<future, processed_results, processed, deployment_freq, pc, report,
              listing, refetched>>

\* get_application_details is entered and the lock is acquired
AcquireLock(c) ==
    /\ call_pc[c] \in {"idle"} \cup CallKinds
    /\ calls[c] < MaxCalls
    /\ LockFree(lock)
    /\ lock' = c
    /\ call_pc' = [call_pc EXCEPT ![c] = "locked"]
    /\ calls' = [calls EXCEPT ![c] = @ + 1]
    /\ UNCHANGED <<loaded, api_call_count>>

\* self.api_call_count is read
LoadCount(c) ==
    /\ call_pc[c] = "locked"
    /\ loaded' = [loaded EXCEPT ![c] = api_call_count]
    /\ call_pc' = [call_pc EXCEPT ![c] = "loaded"]
    /\ UNCHANGED <<lock, calls, api_call_count>>

\* the sum is stored back; the value read is dead from here on
StoreCount(c) ==
    /\ call_pc[c] = "loaded"
    /\ api_call_count' = loaded[c] + 1
    /\ loaded' = [loaded EXCEPT ![c] = 0]
    /\ call_pc' = [call_pc EXCEPT ![c] = "stored"]
    /\ UNCHANGED <<lock, calls>>

\* the with block is left
ReleaseLock(c) ==
    /\ call_pc[c] = "stored"
    /\ lock' = NoOwner
    /\ call_pc' = [call_pc EXCEPT ![c] = "requesting"]
    /\ UNCHANGED <<loaded, calls, api_call_count>>

\* the request succeeds, times out or fails, and the call returns
CallReturns(c, kind) ==
    /\ call_pc[c] = "requesting"
    /\ call_pc' = [call_pc EXCEPT ![c] = kind]
    /\ UNCHANGED <<lock, loaded, calls, api_call_count>>

NextLock ==
    \/ (\E c \in Threads : AcquireLock(c))
          /\ UNCHANGED <<scanVars, dispRest, freqVars, staleVars, chartVars, cfrVars, stuckVars, overallVars>>
    \/ (\E c \in Threads : LoadCount(c))
          /\ UNCHANGED <<scanVars, dispRest, freqVars, staleVars, chartVars, cfrVars, stuckVars, overallVars>>
    \/ (\E c \in Threads : StoreCount(c))
          /\ UNCHANGED <<scanVars, dispRest, freqVars, staleVars, chartVars, cfrVars, stuckVars, overallVars>>
    \/ (\E c \in Threads : ReleaseLock(c))
          /\ UNCHANGED <<scanVars, dispRest, freqVars, staleVars, chartVars, cfrVars, stuckVars, overallVars>>
    \/ (\E c \in Threads, kind \in CallKinds : CallReturns(c, kind))
          /\ UNCHANGED <<scanVars, dispRest, freqVars, staleVars, chartVars, cfrVars, stuckVars, overallVars>>

Init == InitScan /\ InitDisp /\ IdleFreq /\ IdleStale /\ IdleChart /\ IdleCfr /\ IdleRest

Spec == Init /\ [][NextDisp]_vars

SpecScan == Init /\ [][NextScan]_vars

SpecTimed == Init /\ [][NextTimed]_vars

SpecFreq == InitFreq /\ [][NextFreq]_vars

SpecStale == InitStale /\ [][NextStale]_vars

SpecBuckets == Init /\ [][NextBuckets]_vars

SpecChart == InitChart /\ [][NextChart]_vars

SpecCfr == InitCfr /\ [][NextCfr]_vars

SpecSync == InitSync /\ [][NextCfr]_vars

SpecStuck == InitStuck /\ [][NextStuck]_vars

SpecOverall == InitOverall /\ [][NextOverall]_vars

SpecLock == InitLock /\ [][NextLock]_vars

SpecPool == Init /\ [][NextPool]_vars /\ PoolFairness

(***************************************************************************)
(* Properties of the dispatcher loop.                                      *)
(***************************************************************************)
LoopFinished == pc \in {"frequency", "metrics", "done"}

ResultsOf(a) == {i \in DOMAIN processed_results : processed_results[i].app_name = a}

FetchFailed(a) == future[a].response.kind \in {"timeout", "error"}

IsErrorMarker(r) ==
    /\ r.error
    /\ r.deployments = <<>> /\ r.failures = <<>>
    /\ r.recovery_times = <<>> /\ r.sync_durations = <<>>

\* C1: when the dispatcher loop has finished, processed_results holds exactly
\* one result per input application (N results for N applications), and an
\* application whose fetch failed is represented by an error-marker result
\* with empty deployments, failures, recovery_times and sync_durations.
C1_OneResultPerApplication ==
    LoopFinished =>
        /\ Len(processed_results) = NumApps
        /\ \A a \in Apps :
              /\ Cardinality(ResultsOf(a)) = 1
              /\ FetchFailed(a) =>
                    \A i \in ResultsOf(a) : IsErrorMarker(processed_results[i])

\* C2: every per-application failure, an exception raised inside
\* process_single_app included, ends as an error-marker result for that
\* application in processed_results.
C2_RaisedTaskYieldsErrorMarker ==
    \A a \in Apps :
        (future[a].state = "yielded" /\ Outcome(a).raised) =>
            \E i \in ResultsOf(a) : IsErrorMarker(processed_results[i])

(***************************************************************************)
(* Properties of the history scan.                                         *)
(***************************************************************************)
Counted(e) ==
    /\ e.deployedAt \notin {Missing, Unparseable}
    /\ start_date <= e.deployedAt /\ e.deployedAt <= end_date

\* the in-window entries of a history, in history order
InWindowEntries(h) == SelectSeq(h, Counted)

\* the in-window history is [Fail@t0, Fail@t1, OK@t2] with t0 < t1 < t2
FailFailOk(w) ==
    /\ Len(w) = 3
    /\ IsFailed(w[1]) /\ IsFailed(w[2]) /\ ~IsFailed(w[3])
    /\ w[1].deployedAt < w[2].deployedAt
    /\ w[2].deployedAt < w[3].deployedAt

\* C3: for an in-window history [Fail@t0, Fail@t1, OK@t2], t0 < t1 < t2,
\* process_single_app returns exactly one recovery interval, of t2 - t1 hours.
C3_FailFailOkGivesLaterInterval ==
    LET w == InWindowEntries(history)
    IN  (scan_pc = "returned" /\ FailFailOk(w)) =>
            result.recovery_times = <<RecoveryHours(w[3].deployedAt - w[2].deployedAt)>>

C3_Witness ==
    LET w == InWindowEntries(history)
    IN  /\ scan_pc = "returned"
        /\ FailFailOk(w)
        /\ Len(result.recovery_times) = 1
        /\ DLess(result.recovery_times[1], RecoveryHours(w[3].deployedAt - w[1].deployedAt))

\* the entry the loop body has just handled
LastEntry(h) == h[Len(h)]

\* C4 as claimed: a failure event met while a failure is already open leaves
\* the time of the open-failure marker unchanged.
C4_MarkerKeptWhileOpen ==
    [][(/\ history' # history
        /\ previous_failed
        /\ Counted(LastEntry(history'))
        /\ IsFailed(LastEntry(history')))
       => failure_time' = failure_time]_vars

\* C4 as amended: every in-window failure event sets the open-failure marker to
\* its own time, also while a failure is already open; the marker is therefore
\* the time of the last failure recorded, and the recovery interval emitted at
\* the next non-failure event is measured from the last failure of the run.
C4_MarkerMovesToLatestFailure ==
    [][history' # history =>
        LET e == LastEntry(history')
        IN  /\ (Counted(e) /\ IsFailed(e)) =>
                    /\ previous_failed'
                    /\ failure_time' = e.deployedAt
                    /\ result'.recovery_times = result.recovery_times
            /\ previous_failed' =>
                    /\ result'.failures # <<>>
                    /\ failure_time' = LastEntry(result'.failures).time
            /\ (Counted(e) /\ ~IsFailed(e) /\ previous_failed) =>
                    /\ ~previous_failed'
                    /\ result'.recovery_times =
                          Append(result.recovery_times,
                                 RecoveryHours(e.deployedAt
                                                 - LastEntry(result.failures).time))]_vars

C4_Witness ==
    LET w == InWindowEntries(history)
        n == Len(w)
    IN  /\ n >= 3
        /\ IsFailed(w[n - 2]) /\ IsFailed(w[n - 1]) /\ ~IsFailed(w[n])
        /\ w[n - 2].deployedAt < w[n - 1].deployedAt
        /\ w[n - 1].deployedAt < w[n].deployedAt
        /\ result.recovery_times # <<>>
        /\ LastEntry(result.recovery_times)
             = RecoveryHours(w[n].deployedAt - w[n - 1].deployedAt)

AllPhaseSucceeded(w) == \A i \in DOMAIN w : w[i].phase = "Succeeded"

NoResourceFailed(w) == \A i \in DOMAIN w : ~w[i].resFailed

\* what one result adds to the change-failure and MTTR folds
AddsOnlyDeployments(r, n) ==
    LET one == <<AppResult(1, r)>>
    IN  /\ r.failures = <<>>
        /\ r.recovery_times = <<>>
        /\ Len(r.deployments) = n
        /\ CalculateChangeFailureRate(one).total_deployments = n
        /\ CalculateChangeFailureRate(one).failed_deployments = 0
        /\ CalculateMttr(one).incidents_recovered = 0

\* C5 as claimed: every in-window entry has phase Succeeded, so the result has
\* no failure and no recovery interval and adds to the deployment totals only.
C5_AllSucceededPhaseNoFailures ==
    LET w == InWindowEntries(history)
    IN  (scan_pc = "returned" /\ AllPhaseSucceeded(w)) =>
            AddsOnlyDeployments(result, Len(w))

\* C5 as amended: every in-window entry has phase Succeeded and no resource of
\* its sync result has status Failed or Error; then the result has no failure
\* and no recovery interval and adds to the deployment totals only.
C5_AllSucceededNoFailedResource ==
    LET w == InWindowEntries(history)
    IN  (scan_pc = "returned" /\ AllPhaseSucceeded(w) /\ NoResourceFailed(w)) =>
            AddsOnlyDeployments(result, Len(w))

C5_Witness ==
    LET w == InWindowEntries(history)
    IN  /\ scan_pc = "returned"
        /\ Len(w) >= 2
        /\ AllPhaseSucceeded(w) /\ NoResourceFailed(w)
        /\ Len(result.deployments) = Len(w)
        /\ result.failures = <<>>

(***************************************************************************)
(* Properties of the metric folds.                                         *)
(***************************************************************************)
\* the rate is within [0, 100], it is 0 when nothing failed, and the failed
\* count is within the total
RateInRange(c) ==
    /\ c.change_failure_rate >= 0
    /\ c.change_failure_rate <= 100 * Hundredths
    /\ c.failed_deployments = 0 => c.change_failure_rate = 0
    /\ c.failed_deployments >= 0
    /\ c.failed_deployments <= c.total_deployments

\* C6: for every collected result set the change failure rate lies in
\* [0, 100], it is 0 whenever failed_deployments is 0, also when
\* total_deployments is 0, and failed_deployments never exceeds
\* total_deployments; so it is in the optimized variant, and in the basic
\* variant whenever it returns.
C6_FailureRateInRange ==
    failure_rate # NotComputed =>
        /\ RateInRange(failure_rate.enhanced)
        /\ RateInRange(failure_rate.optimized)
        /\ failure_rate.basic # ValueErrorRaised => RateInRange(failure_rate.basic)

C6_Witness ==
    /\ failure_rate # NotComputed
    /\ failure_rate.enhanced.failed_deployments > 0
    /\ failure_rate.enhanced.failed_deployments < failure_rate.enhanced.total_deployments
    /\ failure_rate.enhanced.change_failure_rate > 0
    /\ failure_rate.enhanced.change_failure_rate < 100 * Hundredths
    /\ failure_rate.optimized.failed_deployments > 0
    /\ failure_rate.basic # ValueErrorRaised
    /\ failure_rate.basic.failed_deployments > 0

LevelRank(level) ==
    CASE level = "low" -> 1
      [] level = "medium" -> 2
      [] level = "high" -> 3
      [] level = "elite" -> 4

\* C7: with the window held constant, for totals a <= b the frequency level of
\* a is not above the level of b in the order low < medium < high < elite.
C7_FrequencyLevelMonotonic ==
    frequency_lo # NotComputed =>
        /\ frequency_lo.total_deployments <= frequency_hi.total_deployments
        /\ LevelRank(frequency_lo.dora_level) <= LevelRank(frequency_hi.dora_level)

C7_Witness ==
    /\ frequency_lo # NotComputed
    /\ days_to_analyze = 30
    /\ frequency_lo.total_deployments < frequency_hi.total_deployments
    /\ frequency_lo.dora_level = "medium"
    /\ frequency_hi.dora_level = "high"

RECURSIVE SeqRange(_)
SeqRange(q) == IF q = <<>> THEN {} ELSE {Head(q)} \cup SeqRange(Tail(q))

\* the values C8 speaks of: totals, rates, averages, medians, percentiles, levels
MetricValues(prs) ==
    LET sync == AnalyzeSyncDuration(prs)
        byns == AnalyzeByNamespace(prs)
    IN  [change_failure_rate |-> CalculateChangeFailureRate(prs),
         mean_time_to_recovery |-> CalculateMttr(prs),
         avg_sync_seconds |-> sync.avg_sync_seconds,
         median_sync_seconds |-> sync.median_sync_seconds,
         p95_sync_seconds |-> sync.p95_sync_seconds,
         p99_sync_seconds |-> sync.p99_sync_seconds,
         namespaces |-> SeqRange(byns.namespaces),
         total_namespaces |-> byns.total_namespaces]

Permuted(prs, p) == [i \in DOMAIN prs |-> prs[p[i]]]

\* C8: the metric values of the report are those of every permutation of the
\* collected results, whatever order the worker tasks completed in.
C8_AggregationOrderIndependent ==
    pc = "done" =>
        /\ report.change_failure_rate = MetricValues(processed_results).change_failure_rate
        /\ report.mean_time_to_recovery = MetricValues(processed_results).mean_time_to_recovery
        /\ \A p \in Permutations(DOMAIN processed_results) :
              MetricValues(Permuted(processed_results, p)) = MetricValues(processed_results)

(***************************************************************************)
(* Properties of analyze_chart_compliance.                                 *)
(***************************************************************************)
AllNumeric(v) == \A i \in DOMAIN Split(v) : IsDigit(Split(v)[i])

\* the dotted version as the sequence of its numbers
Numbers(v) == [i \in DOMAIN Split(v) |-> ToInt(Split(v)[i])]

\* a is below b segment by segment: the first segment that differs is smaller,
\* or a is b cut short
NumericBelow(a, b) ==
    \/ \E i \in DOMAIN a \cap DOMAIN b :
          a[i] < b[i] /\ \A j \in 1..(i - 1) : a[j] = b[j]
    \/ Len(a) < Len(b) /\ \A j \in DOMAIN a : a[j] = b[j]

ChartAppNames(c) == {n \in DOMAIN apps_data : apps_data[n].chart = c}

ChartVersionsUsed(c) == {apps_data[n].version : n \in ChartAppNames(c)}

OutdatedListed(c) ==
    {i \in DOMAIN chart_compliance.outdated_apps :
        chart_compliance.outdated_apps[i].chart_name = c}

\* C9: for a chart whose versions are all numeric, latest_version is one of its
\* versions and no version is above it segment by segment (of 1.2.0, 1.10.0
\* and 1.9.0 the latest is 1.10.0); each app of the chart whose version is not
\* the latest is listed once in outdated_apps and no other app is, and
\* apps_on_latest + apps_outdated = total_apps, the number of apps of the chart.
C9_LatestIsNumericMaximum ==
    chart_compliance # NotComputed =>
        \A k \in DOMAIN chart_compliance.chart_summary :
            LET s == chart_compliance.chart_summary[k]
                c == s.chart_name
                used == ChartVersionsUsed(c)
            IN  (\A v \in used : AllNumeric(v)) =>
                    /\ s.latest_version \in used
                    /\ \A v \in used : ~NumericBelow(Numbers(s.latest_version), Numbers(v))
                    /\ used = {V_1_2_0, V_1_10_0, V_1_9_0} => s.latest_version = V_1_10_0
                    /\ s.total_apps = Cardinality(ChartAppNames(c))
                    /\ s.apps_on_latest =
                          Cardinality({n \in ChartAppNames(c) :
                                          apps_data[n].version = s.latest_version})
                    /\ s.apps_on_latest + s.apps_outdated = s.total_apps
                    /\ Cardinality(OutdatedListed(c)) = s.apps_outdated
                    /\ {chart_compliance.outdated_apps[i].app_name : i \in OutdatedListed(c)}
                          = {n \in ChartAppNames(c) : apps_data[n].version # s.latest_version}

C9_Witness ==
    /\ chart_compliance # NotComputed
    /\ \E k \in DOMAIN chart_compliance.chart_summary :
          LET s == chart_compliance.chart_summary[k]
          IN  /\ ChartVersionsUsed(s.chart_name) = {V_1_2_0, V_1_10_0, V_1_9_0}
              /\ s.latest_version = V_1_10_0
              /\ s.apps_outdated = 2
              /\ Cardinality(OutdatedListed(s.chart_name)) = 2

(***************************************************************************)
(* Properties of analyze_staleness.                                        *)
(***************************************************************************)
\* C10: the category follows the precedence critical, warning, info; at or
\* beyond the critical threshold it is stable iff Synced and Healthy; at or
\* beyond the warning threshold it is stable iff Synced, Healthy and auto-sync;
\* at or beyond the info threshold it is active; else recent.  is_problematic
\* holds exactly for the category stale.  200 days Synced/Healthy is stable,
\* 200 days Synced/Degraded is stale and problematic.
C10_StalenessPrecedence ==
    staleness # NotComputed =>
        LET days == staleness.days_since_deploy
            synced == staleness.sync_status = "Synced"
            healthy == staleness.health_status = "Healthy"
            auto == staleness.auto_sync_enabled
        IN  /\ days >= StalenessCritical =>
                  (staleness.category = IF synced /\ healthy THEN "stable" ELSE "stale")
            /\ (days < StalenessCritical /\ days >= StalenessWarning) =>
                  (staleness.category =
                      IF synced /\ healthy /\ auto THEN "stable" ELSE "stale")
            /\ (days < StalenessWarning /\ days >= StalenessInfo) =>
                  staleness.category = "active"
            /\ days < StalenessInfo => staleness.category = "recent"
            /\ staleness.is_problematic <=> (staleness.category = "stale")
            /\ (days = 200 /\ synced /\ healthy) => staleness.category = "stable"
            /\ (days = 200 /\ synced /\ staleness.health_status = "Degraded") =>
                  (staleness.category = "stale" /\ staleness.is_problematic)

C10_Witness ==
    /\ staleness # NotComputed
    /\ staleness.days_since_deploy = 200
    /\ staleness.sync_status = "Synced"
    /\ staleness.health_status = "Degraded"
    /\ staleness.category = "stale"
    /\ staleness.is_problematic

(***************************************************************************)
(* Properties of the report of one run.                                    *)
(***************************************************************************)
\* processed_results without the results of application a
OtherResults(a) == SelectSeq(processed_results, LAMBDA r : r.app_name # a)

\* the deployments the frequency round counts for the applications other than a
RefetchedTotalWithout(a) ==
    SumSeq([b \in Apps |->
              IF b = a THEN 0 ELSE FrequencyCount(ProcessSingleApp(b, refetched[b]))])

\* C11: when the detail fetch of an application failed, the report's
\* total_applications is still the size of the application list, and every
\* aggregate (change failure rate, MTTR, sync durations, namespaces and the
\* deployment total of the frequency metric) equals the one computed over the
\* remaining applications alone.
C11_FailedFetchContributesNothing ==
    pc = "done" =>
        \A a \in Apps :
            FetchFailed(a) =>
                /\ report.total_applications = NumApps
                /\ report.change_failure_rate = CalculateChangeFailureRate(OtherResults(a))
                /\ report.mean_time_to_recovery = CalculateMttr(OtherResults(a))
                /\ report.sync_performance = AnalyzeSyncDuration(OtherResults(a))
                /\ report.namespace_breakdown = AnalyzeByNamespace(OtherResults(a))
                /\ report.deployment_frequency.total_deployments = RefetchedTotalWithout(a)

(***************************************************************************)
(* Properties of check_stuck_in_sync.                                      *)
(***************************************************************************)
\* seconds from the start of the current operation to now
StuckElapsed == StuckNow - stuck_app_data.startedAt

\* the operation is under way and its start time is present and parses
StuckEligible ==
    /\ stuck_app_data.phase \in {"Running", "Progressing"}
    /\ stuck_app_data.startedAt \notin {Missing, Unparseable}

\* C12 as stated: the application is flagged exactly when the phase is Running
\* or Progressing and the whole minutes elapsed are strictly greater than the
\* threshold; it then returns the elapsed minutes truncated, else (False, 0).
C12_StuckWhenWholeMinutesExceed ==
    stuck # NotComputed =>
        IF StuckEligible
           /\ StuckElapsed \div SecondsPerMinute > STUCK_SYNC_THRESHOLD_MINUTES
        THEN stuck = [is_stuck |-> TRUE,
                      minutes_stuck |-> StuckElapsed \div SecondsPerMinute]
        ELSE stuck = [is_stuck |-> FALSE, minutes_stuck |-> 0]

\* C12 amended: the application is flagged exactly when the phase is Running or
\* Progressing, the start time parses and the elapsed time, before truncation,
\* is strictly more than the threshold; it then returns the elapsed minutes
\* truncated to an integer, else (False, 0).
C12_StuckWhenElapsedExceedsThreshold ==
    stuck # NotComputed =>
        IF StuckEligible
           /\ StuckElapsed > STUCK_SYNC_THRESHOLD_MINUTES * SecondsPerMinute
        THEN stuck = [is_stuck |-> TRUE,
                      minutes_stuck |-> StuckElapsed \div SecondsPerMinute]
        ELSE stuck = [is_stuck |-> FALSE, minutes_stuck |-> 0]

C12_Witness ==
    /\ stuck # NotComputed
    /\ stuck_app_data.phase = "Running"
    /\ StuckEligible
    /\ StuckElapsed = STUCK_SYNC_THRESHOLD_MINUTES * SecondsPerMinute + SecondsPerMinute \div 2
    /\ stuck = [is_stuck |-> TRUE, minutes_stuck |-> STUCK_SYNC_THRESHOLD_MINUTES]

(***************************************************************************)
(* Properties of the metrics of one round of answers.                      *)
(***************************************************************************)
\* C13: in each of the three variants calculate_lead_time returns the level
\* 'unknown', whatever the application list and the histories are.
C13_LeadTimeAlwaysUnknown ==
    lead_time # NotComputed =>
        \A variant \in {"enhanced", "optimized", "basic"} :
            lead_time[variant] # ValueErrorRaised =>
                lead_time[variant].dora_level = "unknown"

\* the recovery intervals of the non-error results
RecoveryCount(results) ==
    SumSeq([i \in DOMAIN results |->
              IF results[i].error THEN 0 ELSE Len(results[i].recovery_times)])

\* C14: calculate_mttr reports the level 'unknown', a note and
\* incidents_recovered = 0 exactly when no non-error result has a recovery
\* interval; otherwise incidents_recovered is the number of recovery intervals
\* of all applications and the level is elite for a mean below 1 hour, high
\* below 24, medium below 168, else low.
C14_MttrUnknownExactlyWithoutRecovery ==
    mttr # NotComputed =>
        LET results == ServedResults
            count == RecoveryCount(results)
            mean == Mean(AllRecoveryTimes(results))
        IN  /\ (mttr.dora_level = "unknown") <=> (count = 0)
            /\ count = 0 =>
                  /\ mttr.incidents_recovered = 0
                  /\ mttr.note # ""
            /\ count > 0 =>
                  /\ mttr.incidents_recovered = count
                  /\ mttr.dora_level =
                        IF DLess(mean, DFromInt(1)) THEN "elite"
                        ELSE IF DLess(mean, DFromInt(24)) THEN "high"
                        ELSE IF DLess(mean, DFromInt(168)) THEN "medium"
                        ELSE "low"

C14_Witness ==
    /\ mttr # NotComputed
    /\ RecoveryCount(ServedResults) = NumApps
    /\ mttr.incidents_recovered = NumApps
    /\ mttr.dora_level = "medium"

(***************************************************************************)
(* Properties of the overall assessment.                                   *)
(***************************************************************************)
\* the overall level as the claim states it, in integer arithmetic
ClaimedOverall(ls) ==
    LET n == Cardinality({i \in DOMAIN ls : ls[i] # "unknown"})
        total == SumSeq([i \in DOMAIN ls |-> LevelScore(ls[i])])
    IN  IF n = 0 THEN "UNKNOWN"
        ELSE IF 2 * total >= 7 * n THEN "ELITE"
        ELSE IF 2 * total >= 5 * n THEN "HIGH"
        ELSE IF 2 * total >= 3 * n THEN "MEDIUM"
        ELSE "LOW"

C16_NoReportOnlyWhenListingFailed ==
    /\ pc = "returned" => report = NoReport /\ listing = "error"
    /\ pc = "done" =>
          /\ report # NoReport
          /\ {"deployment_frequency", "lead_time_for_changes", "change_failure_rate",
              "mean_time_to_recovery", "sync_performance", "namespace_breakdown"}
                \subseteq DOMAIN report

(***************************************************************************)
(* Properties of the upstream-call counter.                                *)
(***************************************************************************)
NoCallInFlight == \A c \in Threads : call_pc[c] \in {"idle"} \cup CallKinds

CallsStarted == SumSeq(calls)

\* C17: under every interleaving of the worker threads api_call_count never
\* decreases, and whenever no call is in flight it equals the number of
\* get_application_details invocations started, whatever each call answered.
C17_NoLostIncrement ==
    /\ [](NoCallInFlight => api_call_count = CallsStarted)
    /\ [][api_call_count' >= api_call_count]_vars

C17_Witness ==
    /\ NoCallInFlight
    /\ CallsStarted = NumThreads * MaxCalls
    /\ api_call_count = NumThreads * MaxCalls
    /\ \E c \in Threads : call_pc[c] = "timeout"
    /\ \E c \in Threads : call_pc[c] = "error"

\* C18: in one run every application's detail is fetched exactly once:
\* api_calls_made equals the number of applications.
C18_OneFetchPerApplication ==
    pc = "done" => report.api_calls_made = NumApps

\* C19: the metrics of one report agree with each other: the total_deployments
\* of deployment_frequency equals the total_deployments of change_failure_rate.
C19_MetricsAgreeOnTotal ==
    pc = "done" =>
        report.deployment_frequency.total_deployments
            = report.change_failure_rate.total_deployments

(***************************************************************************)
(* Properties of the failure classification.                               *)
(***************************************************************************)
\* the failure predicate as the claim states it
ClaimedFailure(e) == e.phase \in {"Failed", "Error"} \/ e.resFailed

\* the in-window entries of a history that the claim calls failures
ClaimedFailures(h) == SelectSeq(InWindowEntries(h), ClaimedFailure)

\* the history served to the application of a result
ServedHistoryOf(r) == served[r.app_name].body.history

\* C20: an event is classified as a failure iff its phase is Failed or Error or
\* a resource of its sync result has status Failed or Error; the failures list
\* of a result holds exactly the in-window events for which this holds, and
\* the change-failure numerator counts exactly those events.
C20_FailureIffPhaseOrResource ==
    failure_rate # NotComputed =>
        LET results == ServedResults
        IN  /\ \A i \in DOMAIN results :
                  LET r == results[i]
                      window == InWindowEntries(ServedHistoryOf(r))
                      claimed == SelectSeq(window, ClaimedFailure)
                  IN  ~r.error =>
                        /\ [k \in DOMAIN r.failures |-> r.failures[k].time]
                              = [k \in DOMAIN claimed |-> claimed[k].deployedAt]
                        /\ Len(r.deployments) = Len(window)
                        /\ \A k \in DOMAIN r.deployments :
                              r.deployments[k].is_failed <=> ClaimedFailure(window[k])
            /\ failure_rate.enhanced.failed_deployments =
                  SumSeq([i \in DOMAIN results |->
                            IF results[i].error THEN 0
                            ELSE Len(ClaimedFailures(ServedHistoryOf(results[i])))])

C20_Witness ==
    /\ failure_rate # NotComputed
    /\ failure_rate.enhanced.failed_deployments >= 2
    /\ \E i \in DOMAIN ServedResults :
          /\ ~ServedResults[i].error
          /\ \E k \in DOMAIN ServedResults[i].failures :
                ServedResults[i].failures[k].phase = "Succeeded"

(***************************************************************************)
(* Termination of the run.                                                 *)
(***************************************************************************)
\* C21: when every detail call returns or times out the run terminates: every
\* submitted task completes and is collected, the collector has counted N
\* completions for N applications when the loop is over, and a task whose
\* call timed out ends as an error-marker result while the other tasks and
\* the collector go on.
C21_RunTerminates ==
    /\ <>(pc \in {"returned", "done"})
    /\ [](pc = "returned" => listing # "apps")
    /\ [](LoopFinished =>
            /\ processed = NumApps
            /\ \A a \in Apps : future[a].state = "yielded")
    /\ [](\A a \in Apps :
            (future[a].state = "yielded" /\ future[a].response = Timeout) =>
                \E i \in ResultsOf(a) : IsErrorMarker(processed_results[i]))

C21_Witness ==
    /\ pc = "done"
    /\ processed = NumApps
    /\ future[1].response = Timeout
    /\ \E i \in ResultsOf(1) : IsErrorMarker(processed_results[i])
    /\ \E a \in Apps :
          /\ future[a].response.kind = "ok"
          /\ \E i \in ResultsOf(a) : ~processed_results[i].error

(***************************************************************************)
(* Properties of analyze_staleness on histories of several entries.        *)
(***************************************************************************)
\* the history holds parseable times in ascending order: oldest first
OldestFirst(h) ==
    /\ \A i \in DOMAIN h : h[i] \notin {Missing, Unparseable}
    /\ \A i, j \in DOMAIN h : i <= j => h[i] <= h[j]

\* C22: with the history ordered oldest first, days_since_deploy is counted
\* from the time of the most recent entry, the last one of the history, for
\* every history of at least one entry.
C22_DaysFromMostRecentEntry ==
    staleness # NotComputed =>
        LET h == stale_app_data.history
        IN  (Len(h) >= 1 /\ OldestFirst(h)) =>
                staleness.days_since_deploy = StaleNow - h[Len(h)]

(***************************************************************************)
(* Properties of the median of calculate_mttr.                             *)
(***************************************************************************)
\* the median of a non-empty list of floats: the middle value of the sorted
\* list, or the mean of the two middle values when the length is even
Median(times) ==
    LET sorted == DSorted(times)
        n == Len(sorted)
    IN  IF n % 2 = 1 THEN sorted[(n + 1) \div 2]
        ELSE DDivInt(DAdd(sorted[n \div 2], sorted[(n \div 2) + 1]), 2)

\* C23: median_mttr_hours is the median of all recovery intervals of all
\* applications (rounded to two decimals), for every non-empty list of
\* intervals, lists of even length included.
C23_MedianOfAllIntervals ==
    mttr # NotComputed =>
        LET times == AllRecoveryTimes(ServedResults)
        IN  times # <<>> =>
                mttr.median_mttr_hours = DRound(Median(times), Hundredths)

(***************************************************************************)
(* Properties of the choice of the latest chart version.                   *)
(***************************************************************************)
\* C24: for a chart of which some version has a non-numeric segment, the
\* versions are compared as strings: latest_version is the lexicographically
\* greatest version string of the chart, whatever the order in which the
\* versions were met.
C24_NonNumericComparedAsStrings ==
    chart_compliance # NotComputed =>
        \A k \in DOMAIN chart_compliance.chart_summary :
            LET s == chart_compliance.chart_summary[k]
                used == ChartVersionsUsed(s.chart_name)
            IN  (\E v \in used : ~AllNumeric(v)) =>
                    /\ s.latest_version \in used
                    /\ \A v \in used : ~StrLess(s.latest_version, v)

\* two segments are the same sort key: the same number, or the same string
SameSegment(x, y) ==
    IF IsDigit(x) /\ IsDigit(y) THEN ToInt(x) = ToInt(y) ELSE x = y

\* the segments of a and b before position i are the same
SamePrefix(a, b, i) == \A j \in 1..(i - 1) : SameSegment(Split(a)[j], Split(b)[j])

\* at the first position where a and b differ a number meets a string
Incomparable(a, b) ==
    \E i \in DOMAIN Split(a) \cap DOMAIN Split(b) :
        /\ SamePrefix(a, b, i)
        /\ IsDigit(Split(a)[i]) # IsDigit(Split(b)[i])

\* a is below b segment by segment: at the first position where they differ
\* the number of a is smaller or the string of a is smaller, or a is b cut short
BelowBySegment(a, b) ==
    \/ \E i \in DOMAIN Split(a) \cap DOMAIN Split(b) :
          /\ SamePrefix(a, b, i)
          /\ \/ /\ IsDigit(Split(a)[i]) /\ IsDigit(Split(b)[i])
                /\ ToInt(Split(a)[i]) < ToInt(Split(b)[i])
             \/ /\ ~IsDigit(Split(a)[i]) /\ ~IsDigit(Split(b)[i])
                /\ StrLess(Split(a)[i], Split(b)[i])
    \/ /\ Len(Split(a)) < Len(Split(b))
       /\ SamePrefix(a, b, Len(Split(a)) + 1)

\* C24 amended: for a chart of which some version has a non-numeric segment,
\* the versions are compared as strings only when two of them cannot be
\* compared by segments (a number meets a string at the first position where
\* they differ): latest_version is then the lexicographically greatest version
\* string.  Otherwise numbers are compared as numbers and strings as strings,
\* and no version of the chart is above latest_version segment by segment.
C24_NonNumericComparedBySegment ==
    chart_compliance # NotComputed =>
        \A k \in DOMAIN chart_compliance.chart_summary :
            LET s == chart_compliance.chart_summary[k]
                used == ChartVersionsUsed(s.chart_name)
            IN  (\E v \in used : ~AllNumeric(v)) =>
                    /\ s.latest_version \in used
                    /\ IF \E a, b \in used : Incomparable(a, b)
                       THEN \A v \in used : ~StrLess(s.latest_version, v)
                       ELSE \A v \in used : ~BelowBySegment(s.latest_version, v)

C24_Witness ==
    /\ chart_compliance # NotComputed
    /\ \E k \in DOMAIN chart_compliance.chart_summary :
          LET s == chart_compliance.chart_summary[k]
          IN  /\ ChartVersionsUsed(s.chart_name) = {V_9_x, V_10_x}
              /\ s.latest_version = V_10_x
              /\ StrLess(V_10_x, V_9_x)

(***************************************************************************)
(* Properties of the result of the history scan.                           *)
(***************************************************************************)
\* the in-window failures of w that are followed by an in-window non-failure
Recovered(w) ==
    {i \in DOMAIN w : i < Len(w) /\ ClaimedFailure(w[i]) /\ ~ClaimedFailure(w[i + 1])}

\* C25: a failure still open when the scan ends (the last in-window event is
\* a failure) produces no recovery interval: the result holds one interval
\* per failure that a later in-window non-failure event closed and none for
\* the open one, which stays the last entry of the failures list and is
\* counted in the change-failure numerator.
C25_OpenFailureGivesNoInterval ==
    LET w == InWindowEntries(history)
        n == Len(w)
        one == <<AppResult(1, result)>>
    IN  (scan_pc = "returned" /\ n >= 1 /\ ClaimedFailure(w[n])) =>
            /\ previous_failed
            /\ Len(result.recovery_times) = Cardinality(Recovered(w))
            /\ (\A i \in DOMAIN w : ClaimedFailure(w[i])) => result.recovery_times = <<>>
            /\ result.failures # <<>>
            /\ LastEntry(result.failures).time = w[n].deployedAt
            /\ Len(result.failures) = Cardinality({i \in DOMAIN w : ClaimedFailure(w[i])})
            /\ CalculateChangeFailureRate(one).failed_deployments = Len(result.failures)
            /\ CalculateMttr(one).incidents_recovered = Cardinality(Recovered(w))

C25_Witness ==
    LET w == InWindowEntries(history)
    IN  /\ scan_pc = "returned"
        /\ Len(w) = 3
        /\ ClaimedFailure(w[1]) /\ ~ClaimedFailure(w[2]) /\ ClaimedFailure(w[3])
        /\ Len(result.recovery_times) = 1
        /\ Len(result.failures) = 2
        /\ previous_failed


(***************************************************************************)
(* C26: a history entry whose deployedAt is missing or does not parse is   *)
(* skipped for that entry only: the application still gets a non-error     *)
(* result, and the deployments, failures, recovery intervals and sync      *)
(* durations, and the open-failure marker, are those of the same history   *)
(* with the skipped entries removed.                                       *)
(***************************************************************************)
Skipped(e) == e.deployedAt = Missing \/ e.deployedAt = Unparseable

WithoutSkipped(h) == SelectSeq(h, LAMBDA e : ~Skipped(e))

C26_SkippedEntryLeavesNoTrace ==
    LET kept == WithoutSkipped(history)
        whole == ProcessSingleApp(1, Ok(AppData(TRUE, history)))
        rest == ProcessSingleApp(1, Ok(AppData(TRUE, kept)))
    IN  /\ ScanState = ScanAll(ScanInit, kept)
        /\ ~whole.raised /\ ~whole.result.error
        /\ whole = rest
        /\ whole.result = AppResult(1, result)

\* a failed entry without deployedAt and one with an unparseable deployedAt,
\* both carrying operation times, around a failure and its recovery that
\* record two sync durations
C26_Witness ==
    /\ scan_pc = "returned"
    /\ Len(history) = MaxHist
    /\ Cardinality({i \in DOMAIN history : Skipped(history[i])}) >= 1
    /\ \E i \in DOMAIN history :
          /\ Skipped(history[i]) /\ IsFailed(history[i])
          /\ history[i].startedAt \notin {Missing, Unparseable}
          /\ i > 1 /\ i < Len(history)
    /\ Len(result.deployments) = 2
    /\ Len(result.failures) = 1
    /\ Len(result.recovery_times) = 1
    /\ Len(result.sync_durations) = 2
    /\ ~previous_failed


(***************************************************************************)
(* C29: in every result of process_single_app each deployment's time lies  *)
(* in [start_date, end_date], the failures are a sub-list of the           *)
(* deployments, there are at most as many recovery intervals as failures,  *)
(* every recorded sync duration is strictly positive, and when the history *)
(* is ordered oldest first every recovery interval is non-negative.        *)
(***************************************************************************)
RECURSIVE IsSubList(_, _)
IsSubList(a, b) ==
    IF a = <<>> THEN TRUE
    ELSE IF b = <<>> THEN FALSE
    ELSE IF Head(a) = Head(b) THEN IsSubList(Tail(a), Tail(b))
    ELSE IsSubList(a, Tail(b))

NonNegativeHours(x) == ~DLess(x, DFromInt(0))

\* the deployedAt times of the entries that carry one
DeployTimes(h) == [i \in DOMAIN WithoutSkipped(h) |-> WithoutSkipped(h)[i].deployedAt]

C29_ResultWellFormed ==
    LET r == ProcessSingleApp(1, Ok(AppData(TRUE, history))).result
    IN  /\ r = AppResult(1, result)
        /\ \A i \in DOMAIN r.deployments :
              start_date <= r.deployments[i].time /\ r.deployments[i].time <= end_date
        /\ IsSubList(r.failures, r.deployments)
        /\ Len(r.recovery_times) <= Len(r.failures)
        /\ \A i \in DOMAIN r.sync_durations : r.sync_durations[i] > 0
        /\ OldestFirst(DeployTimes(history)) =>
              \A i \in DOMAIN r.recovery_times : NonNegativeHours(r.recovery_times[i])

\* an oldest-first history with a failure and its recovery, a zero-length
\* operation that records no duration and an entry before the window
C29_Witness ==
    /\ scan_pc = "returned"
    /\ OldestFirst(DeployTimes(history))
    /\ Len(history) = MaxHist
    /\ Len(result.failures) = 1
    /\ Len(result.recovery_times) = 1
    /\ DLess(DFromInt(0), result.recovery_times[1])
    /\ Len(result.deployments) = 2
    /\ Len(result.sync_durations) = 1
    /\ \E i \in DOMAIN history :
          /\ history[i].deployedAt = end_date
          /\ history[i].startedAt = end_date
          /\ FinishedAtStr(history[i]) = end_date
    /\ \E i \in DOMAIN history : history[i].deployedAt = start_date - 1


(***************************************************************************)
(* Properties of analyze_application_staleness.                            *)
(***************************************************************************)
BucketNames == {"stable_apps", "stale_apps", "active_apps", "recent_apps"}

\* the buckets in which the application of a result appears
BucketsHolding(r) ==
    {b \in BucketNames :
        \E i \in DOMAIN stale_buckets[b] : stale_buckets[b][i].app_name = r.app_name}

DaysDescending(s) ==
    \A i, j \in DOMAIN s : i <= j => s[i].days_since_deploy >= s[j].days_since_deploy

\* C27: analyze_application_staleness partitions all collected results into
\* the buckets stable, stale, active and recent: every collected result is in
\* exactly one bucket, the four sizes sum to the number of collected results,
\* and the stable and the stale bucket are ordered by days_since_deploy
\* descending.
C27_BucketsPartitionCollectedResults ==
    stale_buckets # NotComputed =>
        /\ \A i \in DOMAIN stale_results :
              Cardinality(BucketsHolding(stale_results[i])) = 1
        /\ Len(stale_buckets.stable_apps) + Len(stale_buckets.stale_apps)
             + Len(stale_buckets.active_apps) + Len(stale_buckets.recent_apps)
           = Len(stale_results)
        /\ DaysDescending(stale_buckets.stable_apps)
        /\ DaysDescending(stale_buckets.stale_apps)


(***************************************************************************)
(* Properties of analyze_sync_duration.                                    *)
(***************************************************************************)
\* the index floor(count * p / 100), clamped to the last index (0-based)
NearestRankIndex(count, pct) == Min((count * pct) \div 100, count - 1)

\* C28: the 95th and the 99th percentile are the elements at index
\* floor(count * p), clamped to the last index, of the ascending-sorted list of
\* all recorded durations; hence median <= p95 <= p99 <= maximum for every
\* non-empty list; with no durations the result is zeros, an empty slowest
\* list and a note.
C28_PercentilesByNearestRank ==
    sync_performance # NotComputed =>
        LET sorted == Sorted(AllSyncDurations(ServedResults))
            count == Len(sorted)
        IN  IF count = 0
            THEN /\ sync_performance.avg_sync_seconds = 0
                 /\ sync_performance.median_sync_seconds = 0
                 /\ sync_performance.p95_sync_seconds = 0
                 /\ sync_performance.p99_sync_seconds = 0
                 /\ sync_performance.slowest_apps = <<>>
                 /\ sync_performance.note = "No sync duration data available"
            ELSE /\ sync_performance.p95_sync_seconds
                      = sorted[NearestRankIndex(count, 95) + 1] * Tenths
                 /\ sync_performance.p99_sync_seconds
                      = sorted[NearestRankIndex(count, 99) + 1] * Tenths
                 /\ sync_performance.median_sync_seconds <= sync_performance.p95_sync_seconds
                 /\ sync_performance.p95_sync_seconds <= sync_performance.p99_sync_seconds
                 /\ sync_performance.p99_sync_seconds <= sorted[count] * Tenths
                 /\ \A i, j \in DOMAIN sorted : i <= j => sorted[i] <= sorted[j]

\* 22 durations of two applications beside an error marker: the median is
\* below the 95th percentile, which is the last duration but one
C28_Witness ==
    /\ sync_performance # NotComputed
    /\ "total_syncs" \in DOMAIN sync_performance
    /\ sync_performance.total_syncs = 22
    /\ sync_performance.median_sync_seconds < sync_performance.p95_sync_seconds
    /\ sync_performance.p95_sync_seconds < sync_performance.p99_sync_seconds
    /\ sync_performance.p99_sync_seconds
         = Sorted(AllSyncDurations(ServedResults))[sync_performance.total_syncs] * Tenths
    /\ \E a \in Apps : served[a] = Timeout


(***************************************************************************)
(* Properties of analyze_by_namespace against calculate_change_failure_rate.*)
(***************************************************************************)
RECURSIVE SumOver(_, _)
SumOver(s, field) == IF s = <<>> THEN 0 ELSE Head(s)[field] + SumOver(Tail(s), field)

\* C30: over the same collected results, the total_deployments of the
\* namespaces sum to change_failure_rate.total_deployments, their
\* failed_deployments sum to change_failure_rate.failed_deployments, and the
\* namespaces are ordered by total_deployments descending.
C30_NamespacesReconcileWithFleet ==
    namespace_breakdown # NotComputed =>
        LET namespaces == namespace_breakdown.namespaces
        IN  /\ SumOver(namespaces, "total_deployments")
                 = failure_rate.enhanced.total_deployments
            /\ SumOver(namespaces, "failed_deployments")
                 = failure_rate.enhanced.failed_deployments
            /\ \A i, j \in DOMAIN namespaces :
                  i <= j => namespaces[i].total_deployments >= namespaces[j].total_deployments

\* two namespaces, the one met second with more deployments than the first,
\* failures in the fleet, and an application whose fetch failed
C30_Witness ==
    /\ namespace_breakdown # NotComputed
    /\ Len(namespace_breakdown.namespaces) = 2
    /\ namespace_breakdown.namespaces[1].ns = AppNamespace(2)
    /\ namespace_breakdown.namespaces[1].total_deployments
         > namespace_breakdown.namespaces[2].total_deployments
    /\ failure_rate.enhanced.failed_deployments >= 1
    /\ failure_rate.enhanced.total_deployments >= 3
    /\ \E a \in Apps : served[a] = Timeout

=============================================================================
